---- MODULE Spec2Model ----
(***************************************************************************)
(* Model of the versebase storage engine (src/src/app/db): the DataType    *)
(* codec, the delimiter-framed TableFile, the persistent TableIndex and    *)
(* the Table CRUD coordinator.  Files are sequences of bytes (0..255);     *)
(* every operation is an operator from a state record to a result record   *)
(* carrying the new state, the returned value and the raised exception.    *)
(***************************************************************************)
EXTENDS Integers, Sequences, FiniteSets, TLC

VARIABLES
    schema,     \* TableFile.schema / Table.schema: sequence of fields [name, datatype]
    file,       \* bytes of the data file
    pos,        \* cursor of the data file handle (file.tell())
    tree,       \* TableIndex.tree: id -> offset
    idxFile,    \* bytes of the index file
    call,       \* the last call: its name and arguments
    ret,        \* what the last call returned or raised
    pre,        \* data file, index and next id as they were before the last call
    written,    \* the write_row calls made so far (row, begin, end, exc)
    scanned,    \* the scan since the last seek(0): [active, recs], recs what read_row returned
    nCreate,    \* number of Table.create calls so far (0 once topDel holds)
    topDel,     \* a delete removed the row holding the greatest id
    lastTop,    \* the greatest id such a delete removed since the last create, or -1
    kills,      \* number of times the process was killed inside Table.delete
    tables,     \* Database.tables: name -> Table
    metadata,   \* Database.metadata.tables: list of TableMeta
    metaJson,   \* content of meta.json
    disk,       \* the data and index files under data_root: filename -> bytes
    heap,       \* the fields mappings (OrderedDict objects) that schemas refer to
    dropped,    \* the Tables delete_table closed that the caller still holds: name -> Table
    frame       \* the request handler suspended at an await: [live, id, rat]

\* no request handler is suspended
NoFrame == [live |-> FALSE, id |-> 0, rat |-> <<>>]

\* the state of the Database
dbVars == <<tables, metadata, metaJson, disk, heap, dropped>>

vars == <<schema, file, pos, tree, idxFile, call, ret, pre, written, scanned,
          nCreate, topDel, lastTop, kills, tables, metadata, metaJson, disk, heap,
          dropped, frame>>

---------------------------------------------------------------------------
(* Bounds of the model *)

\* greatest id Table.create assigns (the data file holds ids 0..MaxId)
MaxId == 2
\* greatest number of write_row calls in the TableFile specification
MaxWrites == 2
\* greatest number of times the process is killed in the reopen specification
MaxKills == 1
\* greatest number of entries of the catalog in the Database specification
MaxTables == 2
\* greatest number of fields mappings alive in the Database specification
MaxObjects == 2
\* greatest number of rows of a table in the Database specification and of
\* rats in the marketplace specification
MaxRows == 1

---------------------------------------------------------------------------
(* Constants of table.py *)

DELIMITER_SIZE == 8
FIELDS_DELIMITER == <<255, 0, 255, 0, 255, 0, 255, 0>>
ROWS_DELIMITER == <<0, 127, 0, 255, 0, 127, 0, 255>>

---------------------------------------------------------------------------
(* Values.  A DType object is a record: t its class, n and hi its integer  *)
(* value in two limbs (value = n + hi * 2^32 with n a signed 32-bit        *)
(* number: an Int with hi # 0 is outside the range of struct ">i"; a       *)
(* DateTime holds whole seconds since the epoch; a Bool holds 0 or 1),     *)
(* us the microseconds of a datetime, s the code points of a str.          *)
(* NoneVal is Python's None put where a DType is expected.                 *)

IntV(n) == [t |-> "Int", n |-> n, hi |-> 0, us |-> 0, s |-> <<>>]
WideInt(hi, n) == [t |-> "Int", n |-> n, hi |-> hi, us |-> 0, s |-> <<>>]
BoolV(b) == [t |-> "Bool", n |-> IF b THEN 1 ELSE 0, hi |-> 0, us |-> 0, s |-> <<>>]
StrV(s) == [t |-> "Str", n |-> 0, hi |-> 0, us |-> 0, s |-> s]
DateTimeV(hi, n, us) == [t |-> "DateTime", n |-> n, hi |-> hi, us |-> us, s |-> <<>>]
NoneVal == [t |-> "None", n |-> 0, hi |-> 0, us |-> 0, s |-> <<>>]

---------------------------------------------------------------------------
(* DataType codec (datatypes.py) *)

\* byte k (0 = least significant) of the 32-bit two's complement of n
ByteOf(n, k) ==
    LET sh == CASE k = 0 -> 1 [] k = 1 -> 256 [] k = 2 -> 65536 [] OTHER -> 16777216
    IN IF n >= 0 THEN (n \div sh) % 256
                 ELSE 255 - (((-(n + 1)) \div sh) % 256)

\* struct.pack(">i", n) for n in range
PackBE32(n) == <<ByteOf(n, 3), ByteOf(n, 2), ByteOf(n, 1), ByteOf(n, 0)>>

\* an unpack that reads the 4 bytes as an unsigned number
UnpackBE32_Unsigned(raw) ==
    IF raw[1] < 128
    THEN raw[1] * 16777216 + raw[2] * 65536 + raw[3] * 256 + raw[4]
    ELSE 2147483647

\* struct.unpack(">i", raw)[0] for 4 bytes
UnpackBE32(raw) ==
    IF raw[1] < 128
    THEN raw[1] * 16777216 + raw[2] * 65536 + raw[3] * 256 + raw[4]
    ELSE -((255 - raw[1]) * 16777216 + (255 - raw[2]) * 65536
           + (255 - raw[3]) * 256 + (255 - raw[4])) - 1

\* datetime.fromtimestamp accepts the years 1..9999:
\* -62135596800 = -14 * 2^32 - 2006054656 up to 253402300799 = 59 * 2^32 - 769665
InDatetimeRange(hi, n) ==
    /\ hi > -14 \/ (hi = -14 /\ n >= -2006054656)
    /\ hi < 59 \/ (hi = 59 /\ n <= -769665)

\* str.encode("utf-8") for code points below 2048
RECURSIVE Utf8Encode(_)
Utf8Encode(s) ==
    IF s = <<>> THEN <<>>
    ELSE LET c == Head(s)
         IN (IF c < 128 THEN <<c>>
             ELSE <<192 + (c \div 64), 128 + (c % 64)>>) \o Utf8Encode(Tail(s))

\* bytes.decode("utf-8"): [ok, s]; ok is FALSE for UnicodeDecodeError
RECURSIVE Utf8Decode(_)
Utf8Decode(raw) ==
    IF raw = <<>> THEN [ok |-> TRUE, s |-> <<>>]
    ELSE IF raw[1] < 128
    THEN LET r == Utf8Decode(Tail(raw))
         IN [ok |-> r.ok, s |-> <<raw[1]>> \o r.s]
    ELSE IF raw[1] >= 194 /\ raw[1] < 224 /\ Len(raw) >= 2
            /\ raw[2] >= 128 /\ raw[2] < 192
    THEN LET r == Utf8Decode(SubSeq(raw, 3, Len(raw)))
         IN [ok |-> r.ok, s |-> <<(raw[1] - 192) * 64 + (raw[2] - 128)>> \o r.s]
    ELSE [ok |-> FALSE, s |-> <<>>]

\* DataType.to_bytes: [ok, exc, bytes]
to_bytes(v) ==
    CASE v.t = "Int" ->
           IF v.hi # 0 THEN [ok |-> FALSE, exc |-> "struct.error", bytes |-> <<>>]
           ELSE [ok |-> TRUE, exc |-> "", bytes |-> PackBE32(v.n)]
      [] v.t = "Bool" -> [ok |-> TRUE, exc |-> "", bytes |-> <<v.n>>]
      [] v.t = "Str" -> [ok |-> TRUE, exc |-> "", bytes |-> Utf8Encode(v.s)]
      [] v.t = "DateTime" ->
           \* int(self.value.timestamp()) truncates toward zero, then ">q":
           \* the upper word is hi less the borrow of a negative lower word
           LET up == (v.hi < 0 \/ (v.hi = 0 /\ v.n < 0)) /\ v.us > 0
               carry == up /\ v.n = 2147483647
               lo == IF ~up THEN v.n ELSE IF carry THEN -2147483647 - 1 ELSE v.n + 1
               h == IF carry THEN v.hi + 1 ELSE v.hi
           IN [ok |-> TRUE, exc |-> "",
               bytes |-> PackBE32(IF lo < 0 THEN h - 1 ELSE h) \o PackBE32(lo)]
      [] OTHER -> [ok |-> FALSE, exc |-> "AttributeError", bytes |-> <<>>]

\* DataType.from_bytes of class t: [ok, exc, val]
from_bytes(t, raw) ==
    CASE t = "Int" ->
           IF Len(raw) # 4 THEN [ok |-> FALSE, exc |-> "struct.error", val |-> NoneVal]
           ELSE [ok |-> TRUE, exc |-> "", val |-> IntV(UnpackBE32(raw))]
      [] t = "Bool" ->
           IF Len(raw) # 1 THEN [ok |-> FALSE, exc |-> "struct.error", val |-> NoneVal]
           ELSE [ok |-> TRUE, exc |-> "", val |-> BoolV(raw[1] # 0)]
      [] t = "Str" ->
           LET d == Utf8Decode(raw)
           IN IF d.ok THEN [ok |-> TRUE, exc |-> "", val |-> StrV(d.s)]
              ELSE [ok |-> FALSE, exc |-> "UnicodeDecodeError", val |-> NoneVal]
      [] OTHER ->
           IF Len(raw) # 8 THEN [ok |-> FALSE, exc |-> "struct.error", val |-> NoneVal]
           ELSE LET lo == UnpackBE32(SubSeq(raw, 5, 8))
                    up == UnpackBE32(SubSeq(raw, 1, 4))
                    h == IF lo < 0 THEN up + 1 ELSE up
                IN IF InDatetimeRange(h, lo)
                   THEN [ok |-> TRUE, exc |-> "", val |-> DateTimeV(h, lo, 0)]
                   ELSE [ok |-> FALSE, exc |-> "OverflowError", val |-> NoneVal]

\* Row.from_bytes: decodes zip(schema, raw) in order; [ok, exc, row]
RECURSIVE RowFromBytes(_, _)
RowFromBytes(sch, raw) ==
    IF sch = <<>> \/ raw = <<>> THEN [ok |-> TRUE, exc |-> "", row |-> <<>>]
    ELSE LET d == from_bytes(Head(sch).datatype, Head(raw))
         IN IF ~d.ok THEN [ok |-> FALSE, exc |-> d.exc, row |-> <<>>]
            ELSE LET r == RowFromBytes(Tail(sch), Tail(raw))
                 IN [ok |-> r.ok, exc |-> r.exc, row |-> <<d.val>> \o r.row]

---------------------------------------------------------------------------
(* TableFile (table.py).  A handle is [bytes, pos]; the file is opened     *)
(* "a+b" unbuffered, so every write lands at the end of the file.          *)

Min(a, b) == IF a < b THEN a ELSE b

\* Row.__init__: zip(schema.fields.keys(), values)
Row(sch, values) == SubSeq(values, 1, Min(Len(sch), Len(values)))

\* file.read(n) at position p: the bytes, short at the end of the file
ReadBytes(bytes, p, n) ==
    IF p >= Len(bytes) THEN <<>> ELSE SubSeq(bytes, p + 1, Min(p + n, Len(bytes)))

\* a seek that counts a negative position from the end of the file as it is
seek_FromEnd(f, p) ==
    IF p >= 0 THEN [ok |-> TRUE, exc |-> "", f |-> [f EXCEPT !.pos = p]]
    ELSE IF Len(f.bytes) + p < 0
    THEN [ok |-> FALSE, exc |-> "ValueError", f |-> f]
    ELSE [ok |-> TRUE, exc |-> "", f |-> [f EXCEPT !.pos = Len(f.bytes) + p]]

\* TableFile.seek: [ok, exc, f]
seek(f, p) ==
    IF p >= 0 THEN [ok |-> TRUE, exc |-> "", f |-> [f EXCEPT !.pos = p]]
    ELSE IF Len(f.bytes) + p + 1 < 0
    THEN [ok |-> FALSE, exc |-> "ValueError", f |-> f]
    ELSE [ok |-> TRUE, exc |-> "", f |-> [f EXCEPT !.pos = Len(f.bytes) + p + 1]]

at_beginning(f) == f.pos = 0

at_end(f) == f.pos = Len(f.bytes)

\* buf[-DELIMITER_SIZE:] when the byte at position q - 1 has just been read
possible_delimiter(bytes, q) == SubSeq(bytes, q - DELIMITER_SIZE + 1, q)

\* whether the last DELIMITER_SIZE buffered bytes are the delimiter d when the
\* byte at position q - 1 has just been read
EndsWith(bytes, q, d) ==
    bytes[q] = d[DELIMITER_SIZE] /\ possible_delimiter(bytes, q) = d

\* the while loop of read_row while it splits off no field: the position q
\* after the first byte, from position q - 1 on, at which the last
\* DELIMITER_SIZE buffered bytes equal a delimiter; 0 when the end of the file
\* comes first
RECURSIVE NextCut(_, _)
NextCut(bytes, q) ==
    IF q > Len(bytes) THEN 0
    ELSE IF EndsWith(bytes, q, ROWS_DELIMITER) \/ EndsWith(bytes, q, FIELDS_DELIMITER)
    THEN q
    ELSE NextCut(bytes, q + 1)

\* one field of the while loop of read_row: the buffer was empty at position p
\* and the loop cut at q (the buffer then held the bytes p..q-1)
RECURSIVE ReadLoop(_, _, _)
ReadCut(bytes, p, fields, q) ==
    IF q = 0 THEN [p |-> Len(bytes), fields |-> fields]
    ELSE IF possible_delimiter(bytes, q) = ROWS_DELIMITER
    THEN [p |-> q, fields |-> Append(fields, SubSeq(bytes, p + 1, q - DELIMITER_SIZE))]
    ELSE ReadLoop(bytes, q, Append(fields, SubSeq(bytes, p + 1, q - DELIMITER_SIZE)))

\* the while loop of read_row from position p <= Len(bytes) with an empty
\* buffer and the fields split off so far: [p, fields].  The buffer can equal
\* a delimiter only once it holds DELIMITER_SIZE bytes.
ReadLoop(bytes, p, fields) == ReadCut(bytes, p, fields, NextCut(bytes, p + DELIMITER_SIZE))

\* the result of read_row
RowResult(ok, exc, none, row, begin, end, f) ==
    [ok |-> ok, exc |-> exc, none |-> none, row |-> row, begin |-> begin,
     end |-> end, f |-> f]

\* the handle after file.read(n)
AfterRead(f, n) ==
    IF f.pos >= Len(f.bytes) THEN f ELSE [f EXCEPT !.pos = Min(f.pos + n, Len(f.bytes))]

\* read_row after seek(pos_begin - DELIMITER_SIZE) gave back: the comparison
\* of the bytes before the record with ROWS_DELIMITER; [ok, exc, f]
CheckDelimiter(back) ==
    IF ~back.ok THEN back
    ELSE IF ReadBytes(back.f.bytes, back.f.pos, DELIMITER_SIZE) # ROWS_DELIMITER
    THEN [ok |-> FALSE, exc |-> "FilePointerCorruptError",
          f |-> AfterRead(back.f, DELIMITER_SIZE)]
    ELSE [ok |-> TRUE, exc |-> "", f |-> AfterRead(back.f, DELIMITER_SIZE)]

\* read_row from Row.from_bytes on, decoded being its result
ReadDecoded(begin, g, decoded) ==
    IF ~decoded.ok THEN RowResult(FALSE, decoded.exc, FALSE, <<>>, 0, 0, g)
    ELSE RowResult(TRUE, "", FALSE, decoded.row, begin, g.pos, g)

\* read_row after its while loop ended with loop
ReadSplit(sch, f, loop) ==
    IF Len(loop.fields) # Len(sch)
    THEN RowResult(FALSE, "AssertionError", FALSE, <<>>, 0, 0, [f EXCEPT !.pos = loop.p])
    ELSE ReadDecoded(f.pos, [f EXCEPT !.pos = loop.p], RowFromBytes(sch, loop.fields))

\* read_row after the check of the preceding delimiter ended with chk
ReadChecked(sch, f, chk) ==
    IF ~chk.ok THEN RowResult(FALSE, chk.exc, FALSE, <<>>, 0, 0, chk.f)
    ELSE ReadSplit(sch, f, ReadLoop(f.bytes, f.pos, <<>>))

\* TableFile.read_row: [ok, exc, none, row, begin, end, f]; none is TRUE
\* when it returns None
read_row(sch, f) ==
    IF at_end(f) THEN RowResult(TRUE, "", TRUE, <<>>, 0, 0, f)
    ELSE ReadChecked(sch, f,
                     IF at_beginning(f) THEN [ok |-> TRUE, exc |-> "", f |-> f]
                     ELSE CheckDelimiter(seek(f, f.pos - DELIMITER_SIZE)))

\* one field of write_row: the file after file.write(field_data.to_bytes())
\* and the delimiter that follows field i (counted from 1); [ok, exc, bytes]
WriteField(bytes, sch, i, e) ==
    IF ~e.ok THEN [ok |-> FALSE, exc |-> e.exc, bytes |-> bytes]
    ELSE [ok |-> TRUE, exc |-> "",
          bytes |-> bytes \o e.bytes
                      \o (IF i - 1 # Len(sch) - 1 THEN FIELDS_DELIMITER ELSE <<>>)]

\* the for loop of write_row from field i on, w being the result so far
RECURSIVE WriteFields(_, _, _, _)
WriteFields(w, sch, row, i) ==
    IF ~w.ok \/ i > Len(row) THEN w
    ELSE WriteFields(WriteField(w.bytes, sch, i, to_bytes(row[i])), sch, row, i + 1)

\* write_row after its for loop ended with w
WriteEnd(begin_pos, w) ==
    IF ~w.ok
    THEN [ok |-> FALSE, exc |-> w.exc, begin |-> 0, end |-> 0,
          f |-> [bytes |-> w.bytes, pos |-> Len(w.bytes)]]
    ELSE [ok |-> TRUE, exc |-> "", begin |-> begin_pos,
          end |-> Len(w.bytes) + DELIMITER_SIZE,
          f |-> [bytes |-> w.bytes \o ROWS_DELIMITER,
                 pos |-> Len(w.bytes) + DELIMITER_SIZE]]

\* TableFile.write_row: [ok, exc, begin, end, f]
write_row(sch, f, row) ==
    WriteEnd(seek(f, -1).f.pos,
             WriteFields([ok |-> TRUE, exc |-> "", bytes |-> f.bytes], sch, row, 1))

\* the file erase leaves: the bytes truncate(begin) keeps, then the tail
Erased(kept, data) == [bytes |-> kept \o data, pos |-> Len(kept) + Len(data)]

\* an erase that writes the tail without truncating the file
erase_NoTruncate(f, begin, end) ==
    IF begin >= end THEN [ok |-> FALSE, exc |-> "ValueError", f |-> f]
    ELSE [ok |-> TRUE, exc |-> "",
          f |-> Erased(f.bytes, ReadBytes(f.bytes, end, Len(f.bytes)))]

\* TableFile.erase: [ok, exc, f]
erase(f, begin, end) ==
    IF begin >= end THEN [ok |-> FALSE, exc |-> "ValueError", f |-> f]
    ELSE [ok |-> TRUE, exc |-> "",
          f |-> Erased(IF begin <= Len(f.bytes) THEN SubSeq(f.bytes, 1, begin)
                       ELSE f.bytes \o [k \in 1..(begin - Len(f.bytes)) |-> 0],
                       ReadBytes(f.bytes, end, Len(f.bytes)))]

---------------------------------------------------------------------------
(* TableIndex (index.py): tree is a function from ids to offsets, the      *)
(* index file a sequence of bytes.                                         *)

\* int.to_bytes(4, byteorder="little", signed=True)
PackLE32(n) == <<ByteOf(n, 0), ByteOf(n, 1), ByteOf(n, 2), ByteOf(n, 3)>>

\* int.to_bytes(8, byteorder="little", signed=False) of an offset below 2^31
PackLE64(n) == PackLE32(n) \o <<0, 0, 0, 0>>

\* the greatest element of a non-empty set of integers
MaxOf(S) == CHOOSE m \in S : \A k \in S : k <= m

\* the least element of a non-empty set of integers
MinOf(S) == CHOOSE m \in S : \A k \in S : m <= k

\* one entry of the index file: the id, then the offset
DumpEntry(id_, p) == PackLE32(id_) \o PackLE64(p)

\* the entries written by the loop of dump for the keys in S, in key order
RECURSIVE DumpEntries(_, _)
DumpEntries(tr, S) ==
    IF S = {} THEN <<>>
    ELSE DumpEntry(MinOf(S), tr[MinOf(S)]) \o DumpEntries(tr, S \ {MinOf(S)})

\* TableIndex.dump: the bytes of the index file after seek(0), truncate()
dump(tr) == DumpEntries(tr, DOMAIN tr)

\* TableIndex.exists
exists(tr, id_) == id_ \in DOMAIN tr

\* int.from_bytes(raw, byteorder="little", signed=False) of up to 8 bytes
\* whose value is below 2^31
RECURSIVE FromLE(_)
FromLE(raw) == IF raw = <<>> THEN 0 ELSE Head(raw) + 256 * FromLE(Tail(raw))

\* an id read with the most significant byte first
UnpackLE32_BigEndian(raw) ==
    IF Len(raw) = 4 THEN UnpackBE32(raw) ELSE FromLE(raw)

\* int.from_bytes(raw, byteorder="little", signed=True) of up to 4 bytes
UnpackLE32(raw) ==
    IF Len(raw) = 4 THEN UnpackBE32(<<raw[4], raw[3], raw[2], raw[1]>>)
    ELSE IF raw[Len(raw)] < 128 THEN FromLE(raw)
    ELSE FromLE(raw) - (CASE Len(raw) = 1 -> 256 [] Len(raw) = 2 -> 65536
                          [] OTHER -> 16777216)

\* the loop of TableIndex.load from the offset p of the index file, tr being
\* the tree so far: 4 bytes of id, 8 bytes of offset, until the end of the
\* file or a read that returns nothing
RECURSIVE LoadLoop(_, _, _)
LoadLoop(idx, p, tr) ==
    IF p >= Len(idx) \/ p + 4 >= Len(idx) THEN tr
    ELSE LoadLoop(idx, Min(p + 12, Len(idx)),
                  [k \in DOMAIN tr \cup {UnpackLE32(SubSeq(idx, p + 1, p + 4))} |->
                      IF k = UnpackLE32(SubSeq(idx, p + 1, p + 4))
                      THEN FromLE(SubSeq(idx, p + 5, Min(p + 12, Len(idx))))
                      ELSE tr[k]])

\* TableIndex.load: the tree read from the bytes of the index file
load(idx) == LoadLoop(idx, 0, [k \in {} |-> 0])

\* a next id that counts the keys
get_next_id_Count(tr) == Cardinality(DOMAIN tr)

\* a next id that starts at 1
get_next_id_FromOne(tr) == IF DOMAIN tr = {} THEN 1 ELSE MaxOf(DOMAIN tr) + 1

\* TableIndex.get_next_id
get_next_id(tr) == IF DOMAIN tr = {} THEN 0 ELSE MaxOf(DOMAIN tr) + 1

\* the empty tree
EmptyTree == [k \in {} |-> 0]

\* self.tree[id_] = pos
TreeSet(tr, id_, p) == [k \in DOMAIN tr \cup {id_} |-> IF k = id_ THEN p ELSE tr[k]]

\* TableIndex.set on a table state: the tree and the index file
index_set(tb, id_, p) ==
    [tb EXCEPT !.tree = TreeSet(tb.tree, id_, p),
               !.idx = dump(TreeSet(tb.tree, id_, p))]

\* TableIndex.clear on a table state
index_clear(tb) == [tb EXCEPT !.tree = EmptyTree, !.idx = dump(EmptyTree)]

---------------------------------------------------------------------------
(* Table (table.py).  A table state is [bytes, pos, tree, idx]; a result   *)
(* is [ok, exc, val, tb].                                                  *)

\* the TableFile handle of a table state
FileOf(tb) == [bytes |-> tb.bytes, pos |-> tb.pos]

\* a table state with its TableFile handle replaced
WithFile(tb, f) == [tb EXCEPT !.bytes = f.bytes, !.pos = f.pos]

\* the position of the field called name in the schema, 0 when absent
FieldPos(sch, name) ==
    IF \E i \in 1..Len(sch) : sch[i].name = name
    THEN CHOOSE i \in 1..Len(sch) : sch[i].name = name
    ELSE 0

\* row.values["id"]
IdOf(sch, row) == row[FieldPos(sch, "id")]

TableResult(ok, exc, val, tb) == [ok |-> ok, exc |-> exc, val |-> val, tb |-> tb]

\* Table.find's loop body after read_row returned r
RECURSIVE FindLoop(_, _, _)
FindStep(sch, idv, r) ==
    IF ~r.ok THEN [ok |-> FALSE, exc |-> r.exc, found |-> FALSE, row |-> <<>>,
                   begin |-> 0, end |-> 0, f |-> r.f]
    ELSE IF r.none THEN [ok |-> TRUE, exc |-> "", found |-> FALSE, row |-> <<>>,
                         begin |-> 0, end |-> 0, f |-> r.f]
    ELSE IF IdOf(sch, r.row).n = idv.n /\ idv.hi = 0
    THEN [ok |-> TRUE, exc |-> "", found |-> TRUE, row |-> r.row,
          begin |-> r.begin, end |-> r.end, f |-> r.f]
    ELSE FindLoop(sch, r.f, idv)

\* the loop of Table.find from the current position: [ok, exc, found, row,
\* begin, end, f]
FindLoop(sch, f, idv) ==
    IF at_end(f) THEN [ok |-> TRUE, exc |-> "", found |-> FALSE, row |-> <<>>,
                       begin |-> 0, end |-> 0, f |-> f]
    ELSE FindStep(sch, idv, read_row(sch, f))

\* Table.find
find(sch, tb, idv) == FindLoop(sch, seek(FileOf(tb), 0).f, idv)

\* Table.refresh_indexes's loop body after read_row returned r
RECURSIVE RefreshLoop(_, _)
RefreshStep(sch, tb, r) ==
    IF ~r.ok THEN TableResult(FALSE, r.exc, 0, WithFile(tb, r.f))
    ELSE IF r.none THEN TableResult(TRUE, "", 0, WithFile(tb, r.f))
    ELSE RefreshLoop(sch, index_set(WithFile(tb, r.f), IdOf(sch, r.row).n, r.begin))

\* the loop of Table.refresh_indexes from the current position
RefreshLoop(sch, tb) ==
    IF at_end(FileOf(tb)) THEN TableResult(TRUE, "", 0, tb)
    ELSE RefreshStep(sch, tb, read_row(sch, FileOf(tb)))

\* Table.refresh_indexes
refresh_indexes(sch, tb) ==
    RefreshLoop(sch, WithFile(index_clear(tb), seek(FileOf(tb), 0).f))

\* Table.delete after refresh_indexes ended with rf
DeleteRefreshed(rf) == IF ~rf.ok THEN rf ELSE TableResult(TRUE, "", 1, rf.tb)

\* a delete that leaves the index as it was instead of rebuilding it
DeleteErased_NoRefresh(sch, tb, e) ==
    IF ~e.ok THEN TableResult(FALSE, e.exc, 0, WithFile(tb, e.f))
    ELSE TableResult(TRUE, "", 1, WithFile(tb, e.f))

\* Table.delete after erase ended with e
DeleteErased(sch, tb, e) ==
    IF ~e.ok THEN TableResult(FALSE, e.exc, 0, WithFile(tb, e.f))
    ELSE DeleteRefreshed(refresh_indexes(sch, WithFile(tb, e.f)))

\* a delete that rebuilds the index and leaves the record in the file
DeleteFound_NoErase(sch, tb, r) ==
    IF ~r.ok THEN TableResult(FALSE, r.exc, 0, WithFile(tb, r.f))
    ELSE IF ~r.found THEN TableResult(TRUE, "", 0, WithFile(tb, r.f))
    ELSE DeleteRefreshed(refresh_indexes(sch, WithFile(tb, r.f)))

\* Table.delete after find returned r
DeleteFound(sch, tb, r) ==
    IF ~r.ok THEN TableResult(FALSE, r.exc, 0, WithFile(tb, r.f))
    ELSE IF ~r.found THEN TableResult(TRUE, "", 0, WithFile(tb, r.f))
    ELSE DeleteErased(sch, tb, erase(r.f, r.begin, r.end))

\* Table.delete of the id value idv
delete(sch, tb, idv) == DeleteFound(sch, tb, find(sch, tb, idv))

\* Table.get after read_row returned r
GetRead(tb, r) ==
    IF ~r.ok THEN TableResult(FALSE, r.exc, <<>>, WithFile(tb, r.f))
    ELSE IF r.none THEN TableResult(FALSE, "ValueError", <<>>, WithFile(tb, r.f))
    ELSE TableResult(TRUE, "", r.row, WithFile(tb, r.f))

\* a get that reads at offset 0 when the index has no entry for the id
get_DefaultOffset(sch, tb, id_) ==
    GetRead(tb, read_row(sch, seek(FileOf(tb),
                                   IF exists(tb.tree, id_) THEN tb.tree[id_] ELSE 0).f))

\* Table.get
get(sch, tb, id_) ==
    IF ~exists(tb.tree, id_) THEN TableResult(FALSE, "ValueError", <<>>, tb)
    ELSE GetRead(tb, read_row(sch, seek(FileOf(tb), tb.tree[id_]).f))

\* Table.create and Table.update after write_row returned w for the id id_
Written(tb, id_, w) ==
    IF ~w.ok THEN TableResult(FALSE, w.exc, 0, WithFile(tb, w.f))
    ELSE TableResult(TRUE, "", id_, index_set(WithFile(tb, w.f), id_, w.begin))

\* a create that keeps the id the caller put into the row
WithId_KeepCallers(sch, row, id_) == row

\* row.values["id"] = Int(id_)
WithId(sch, row, id_) == [row EXCEPT ![FieldPos(sch, "id")] = IntV(id_)]

\* Table.create
create(sch, tb, row) ==
    Written(tb, get_next_id(tb.tree),
            write_row(sch, FileOf(tb), WithId(sch, row, get_next_id(tb.tree))))

\* the value Table.update returns: 1, whatever the id
UpdateResult(r) == IF r.ok THEN [r EXCEPT !.val = 1] ELSE r

\* an update that appends the new record and leaves the old one in the file
update_NoDelete(sch, tb, row) ==
    UpdateResult(Written(tb, IdOf(sch, row).n, write_row(sch, FileOf(tb), row)))

\* an update that appends the row when delete found none with its id
UpdateDeleted_Upsert(sch, row, d) ==
    IF ~d.ok THEN d
    ELSE UpdateResult(Written(d.tb, IdOf(sch, row).n,
                              write_row(sch, seek(FileOf(d.tb), -1).f, row)))

\* Table.update after delete returned d
UpdateDeleted(sch, row, d) ==
    IF ~d.ok THEN d
    ELSE IF d.val = 0 THEN TableResult(TRUE, "", 0, d.tb)
    ELSE UpdateResult(Written(d.tb, IdOf(sch, row).n,
                              write_row(sch, seek(FileOf(d.tb), -1).f, row)))

\* Table.update
update(sch, tb, row) == UpdateDeleted(sch, row, delete(sch, tb, IdOf(sch, row)))

\* a filter that accepts a row as soon as one of its pairs equals the row's
Matches_AnyPair(sch, row, flt) ==
    [ok |-> TRUE, exc |-> "",
     pass |-> \E k \in DOMAIN flt : row[FieldPos(sch, k)] = flt[k]]

\* whether the row passes the filter (a function from field names to values):
\* [ok, exc, pass]; a name the schema lacks raises KeyError
Matches(sch, row, flt) ==
    IF \E k \in DOMAIN flt : FieldPos(sch, k) = 0
    THEN [ok |-> FALSE, exc |-> "KeyError", pass |-> FALSE]
    ELSE [ok |-> TRUE, exc |-> "",
          pass |-> \A k \in DOMAIN flt : row[FieldPos(sch, k)] = flt[k]]

\* Table.select's loop body after the filter was applied to the row of r
RECURSIVE SelectLoop(_, _, _, _)
SelectMatched(sch, flt, rows, r, m) ==
    IF ~m.ok THEN [ok |-> FALSE, exc |-> m.exc, rows |-> rows, f |-> r.f]
    ELSE SelectLoop(sch, r.f, flt, IF m.pass THEN Append(rows, r.row) ELSE rows)

\* Table.select's loop body after read_row returned r
SelectStep(sch, flt, rows, r) ==
    IF ~r.ok THEN [ok |-> FALSE, exc |-> r.exc, rows |-> rows, f |-> r.f]
    ELSE IF r.none THEN [ok |-> TRUE, exc |-> "", rows |-> rows, f |-> r.f]
    ELSE SelectMatched(sch, flt, rows, r, Matches(sch, r.row, flt))

\* the loop of Table.select from the current position: [ok, exc, rows, f]
SelectLoop(sch, f, flt, rows) ==
    IF at_end(f) THEN [ok |-> TRUE, exc |-> "", rows |-> rows, f |-> f]
    ELSE SelectStep(sch, flt, rows, read_row(sch, f))

\* list.insert of row before the first row with a greater id (stable)
RECURSIVE InsertById(_, _, _)
InsertById(sch, sorted, row) ==
    IF sorted = <<>> THEN <<row>>
    ELSE IF IdOf(sch, Head(sorted)).n > IdOf(sch, row).n THEN <<row>> \o sorted
    ELSE <<Head(sorted)>> \o InsertById(sch, Tail(sorted), row)

\* rows.sort(key=lambda row: row.values["id"].value)
RECURSIVE SortById(_, _)
SortById(sch, rows) ==
    IF rows = <<>> THEN <<>>
    ELSE InsertById(sch, SortById(sch, SubSeq(rows, 1, Len(rows) - 1)),
                    rows[Len(rows)])

\* a select that returns the rows in the order of the file
Selected_Unsorted(sch, tb, s) ==
    IF ~s.ok THEN TableResult(FALSE, s.exc, <<>>, WithFile(tb, s.f))
    ELSE TableResult(TRUE, "", s.rows, WithFile(tb, s.f))

\* Table.select after its loop ended with s
Selected(sch, tb, s) ==
    IF ~s.ok THEN TableResult(FALSE, s.exc, <<>>, WithFile(tb, s.f))
    ELSE TableResult(TRUE, "", SortById(sch, s.rows), WithFile(tb, s.f))

\* a select that reads on from where the cursor is
select_FromCursor(sch, tb, flt) ==
    Selected(sch, tb, SelectLoop(sch, FileOf(tb), flt, <<>>))

\* Table.select
select(sch, tb, flt) ==
    Selected(sch, tb, SelectLoop(sch, seek(FileOf(tb), 0).f, flt, <<>>))

\* Table.__init__ on existing files: the data file opened "a+b" (cursor at
\* its end), the index loaded from the index file
Opened(bytes, idx) == [bytes |-> bytes, pos |-> Len(bytes), tree |-> load(idx), idx |-> idx]

\* table.file.close() and table.index.close(): the index is dumped
Closed(tb) == [tb EXCEPT !.idx = dump(tb.tree)]

---------------------------------------------------------------------------
(* The Table specification: one Table opened on empty files with the       *)
(* schema of the tests, {id: Int, name: Str}, and the calls of its API     *)
(* with rows the schema accepts.                                           *)

TestSchema == <<[name |-> "id", datatype |-> "Int"],
                [name |-> "name", datatype |-> "Str"]>>

\* the names given to rows: "a" and the empty string
Names == {StrV(<<97>>), StrV(<<>>)}

\* the ids callers put into the rows they hand to create
CallerIds == {-1, 1}

\* the ids callers ask for
Ids == 0..MaxId

NoFilter == [k \in {} |-> NoneVal]

\* filters on one or both fields
Filters == [{"name"} -> Names] \cup [{"id"} -> {IntV(0), IntV(1)}]
           \cup [{"id", "name"} -> {IntV(0), StrV(<<97>>)}]

\* the table state held by the variables
Tb == [bytes |-> file, pos |-> pos, tree |-> tree, idx |-> idxFile]

Call(name, id_, row, flt) == [name |-> name, id |-> id_, row |-> row, flt |-> flt]

\* the variables after a Table call returned or raised r
Done(c, r) ==
    /\ file' = r.tb.bytes
    /\ pos' = r.tb.pos
    /\ tree' = r.tb.tree
    /\ idxFile' = r.tb.idx
    /\ call' = c
    /\ ret' = [ok |-> r.ok, exc |-> r.exc, val |-> r.val]
    /\ pre' = [bytes |-> file, tree |-> tree, idx |-> idxFile, top |-> lastTop]
    /\ UNCHANGED <<schema, written, scanned, kills>>
    /\ UNCHANGED <<dbVars, frame>>

\* no Database was constructed
NoDatabase ==
    /\ tables = [n \in {} |-> 0]
    /\ metadata = <<>>
    /\ metaJson = <<>>
    /\ disk = [n \in {} |-> <<>>]
    /\ heap = <<>>
    /\ dropped = [n \in {} |-> 0]
    /\ frame = NoFrame

Init ==
    /\ schema = TestSchema
    /\ file = <<>>
    /\ pos = 0
    /\ tree = EmptyTree
    /\ idxFile = <<>>
    /\ call = Call("open", 0, <<>>, NoFilter)
    /\ ret = [ok |-> TRUE, exc |-> "", val |-> 0]
    /\ pre = [bytes |-> <<>>, tree |-> EmptyTree, idx |-> <<>>, top |-> -1]
    /\ written = <<>>
    /\ scanned = [active |-> FALSE, recs |-> <<>>]
    /\ nCreate = 0
    /\ topDel = FALSE
    /\ lastTop = -1
    /\ kills = 0
    /\ NoDatabase

Create ==
    \E i \in CallerIds, nm \in Names :
        /\ get_next_id(tree) <= MaxId
        /\ Done(Call("create", i, <<IntV(i), nm>>, NoFilter),
                create(schema, Tb, Row(schema, <<IntV(i), nm>>)))
        /\ nCreate' = IF topDel THEN 0 ELSE nCreate + 1
        /\ lastTop' = -1
        /\ UNCHANGED topDel

Update ==
    \E i \in Ids, nm \in Names :
        /\ Done(Call("update", i, <<IntV(i), nm>>, NoFilter),
                update(schema, Tb, Row(schema, <<IntV(i), nm>>)))
        /\ UNCHANGED <<nCreate, topDel, lastTop>>

\* the variables after Table.delete(i) returned or raised r
Deleted(i, r) ==
    /\ Done(Call("delete", i, <<>>, NoFilter), r)
    /\ topDel' = (topDel \/ (r.ok /\ r.val = 1 /\ i + 1 = get_next_id(tree)))
    /\ lastTop' = IF r.ok /\ r.val = 1 /\ i + 1 = get_next_id(tree) THEN i ELSE lastTop
    /\ nCreate' = IF topDel' THEN 0 ELSE nCreate

Delete == \E i \in Ids : Deleted(i, delete(schema, Tb, IntV(i)))

Get ==
    \E i \in Ids :
        /\ Done(Call("get", i, <<>>, NoFilter), get(schema, Tb, i))
        /\ UNCHANGED <<nCreate, topDel, lastTop>>

\* the result of Table.find as a Table result
FindResult(tb, r) ==
    TableResult(r.ok, r.exc,
                [found |-> r.found, row |-> r.row, begin |-> r.begin, end |-> r.end],
                WithFile(tb, r.f))

Find ==
    \E i \in Ids :
        /\ Done(Call("find", i, <<>>, NoFilter), FindResult(Tb, find(schema, Tb, IntV(i))))
        /\ UNCHANGED <<nCreate, topDel, lastTop>>

SelectAll ==
    /\ Done(Call("select", 0, <<>>, NoFilter), select(schema, Tb, NoFilter))
    /\ UNCHANGED <<nCreate, topDel, lastTop>>

Select ==
    \E flt \in Filters :
        /\ Done(Call("select", 0, <<>>, flt), select(schema, Tb, flt))
        /\ UNCHANGED <<nCreate, topDel, lastTop>>

Next == Create \/ Update \/ Delete \/ Get \/ Find \/ SelectAll \/ Select

Spec == Init /\ [][Next]_vars

---------------------------------------------------------------------------
(* The reopen specification: the calls of the Table specification, and in  *)
(* addition the table is closed and a fresh Table is constructed on the    *)
(* same files, after a close or after the process was killed in delete     *)
(* between erase and refresh_indexes.                                      *)

\* table.file.close(), table.index.close(), then Table(name, filepath, schema)
Reopen ==
    /\ Done(Call("reopen", 0, <<>>, NoFilter),
            TableResult(TRUE, "", 0, Opened(Closed(Tb).bytes, Closed(Tb).idx)))
    /\ UNCHANGED <<nCreate, topDel, lastTop>>

\* delete(i) found the record r and erased it, the process was killed before
\* refresh_indexes, and a fresh Table was constructed on the files
Killed(i, r) ==
    /\ kills < MaxKills
    /\ r.ok /\ r.found
    /\ file' = erase(r.f, r.begin, r.end).f.bytes
    /\ pos' = Len(file')
    /\ tree' = load(idxFile)
    /\ call' = Call("delete_killed", i, <<>>, NoFilter)
    /\ ret' = [ok |-> FALSE, exc |-> "SIGKILL", val |-> 0]
    /\ pre' = [bytes |-> file, tree |-> tree, idx |-> idxFile, top |-> lastTop]
    /\ kills' = kills + 1
    /\ UNCHANGED <<schema, idxFile, written, scanned, nCreate, topDel, lastTop>>
    /\ UNCHANGED <<dbVars, frame>>

DeleteKilled == \E i \in Ids : Killed(i, find(schema, Tb, IntV(i)))

NextReopen == Create \/ Update \/ Delete \/ Get \/ Reopen \/ DeleteKilled

SpecReopen == Init /\ [][NextReopen]_vars

---------------------------------------------------------------------------
(* The TableFile specification: one TableFile opened on an empty file with *)
(* one of the schemas below; write_row is called with rows of the schema's *)
(* datatypes, some of them with a value that cannot be encoded, and the    *)
(* file is scanned with seek(0) and read_row.                              *)

FileSchemas ==
    {TestSchema,
     <<[name |-> "id", datatype |-> "Int"], [name |-> "flag", datatype |-> "Bool"],
       [name |-> "at", datatype |-> "DateTime"]>>,
     <<[name |-> "at", datatype |-> "DateTime"], [name |-> "flag", datatype |-> "Bool"],
       [name |-> "id", datatype |-> "Int"]>>}

\* values of each datatype: 65280 is 00 00 FF 00, 8323327 is 00 7F 00 FF;
\* the str values are "", "a", "\x00\x7f\x00" and U+00FF
ValuesOf(datatype) ==
    CASE datatype = "Int" -> {IntV(0), IntV(65280), IntV(8323327)}
      [] datatype = "Bool" -> {BoolV(TRUE), BoolV(FALSE)}
      [] datatype = "Str" -> {StrV(<<>>), StrV(<<97>>), StrV(<<0, 127, 0>>), StrV(<<255>>)}
      [] OTHER -> {DateTimeV(0, 0, 0), DateTimeV(0, 65280, 0)}

\* what to_bytes cannot encode: None, and for an Int field the value 2^32
BadValuesOf(datatype) ==
    IF datatype = "Int" THEN {NoneVal, WideInt(1, 0)} ELSE {NoneVal}

\* the values a caller puts into the field f
FieldValues(f) == ValuesOf(f.datatype) \cup BadValuesOf(f.datatype)

\* the tuples of values handed to Row(schema, values), for two or three fields
RowsFor(sch) ==
    IF Len(sch) = 2
    THEN {<<a, b>> : a \in FieldValues(sch[1]), b \in FieldValues(sch[2])}
    ELSE {<<a, b, c>> : a \in FieldValues(sch[1]), b \in FieldValues(sch[2]),
                        c \in FieldValues(sch[3])}

InitFile ==
    /\ schema \in FileSchemas
    /\ file = <<>>
    /\ pos = 0
    /\ tree = EmptyTree
    /\ idxFile = <<>>
    /\ call = Call("open", 0, <<>>, NoFilter)
    /\ ret = [ok |-> TRUE, exc |-> "", val |-> 0]
    /\ pre = [bytes |-> <<>>, tree |-> EmptyTree, idx |-> <<>>, top |-> -1]
    /\ written = <<>>
    /\ scanned = [active |-> FALSE, recs |-> <<>>]
    /\ nCreate = 0
    /\ topDel = FALSE
    /\ lastTop = -1
    /\ kills = 0
    /\ NoDatabase

\* the variables after a TableFile call on the handle left it as f
FileDone(c, r, f) ==
    /\ file' = f.bytes
    /\ pos' = f.pos
    /\ call' = c
    /\ ret' = r
    /\ pre' = [pre EXCEPT !.bytes = file]
    /\ UNCHANGED <<schema, tree, idxFile, nCreate, topDel, lastTop, kills>>
    /\ UNCHANGED <<dbVars, frame>>

\* the variables after write_row(row) returned or raised w
FileWritten(row, w) ==
    /\ FileDone(Call("write_row", 0, row, NoFilter),
                [ok |-> w.ok, exc |-> w.exc, val |-> <<w.begin, w.end>>], w.f)
    /\ written' = Append(written, [row |-> row, ok |-> w.ok, begin |-> w.begin,
                                   end |-> w.end])
    /\ scanned' = [active |-> FALSE, recs |-> <<>>]

FWrite ==
    \E values \in RowsFor(schema) :
        /\ Len(written) < MaxWrites
        /\ FileWritten(Row(schema, values),
                       write_row(schema, [bytes |-> file, pos |-> pos],
                                 Row(schema, values)))

FSeek ==
    /\ FileDone(Call("seek", 0, <<>>, NoFilter), [ok |-> TRUE, exc |-> "", val |-> 0],
                seek([bytes |-> file, pos |-> pos], 0).f)
    /\ scanned' = [active |-> TRUE, recs |-> <<>>]
    /\ UNCHANGED written

\* the variables after read_row returned or raised r
FileRead(r) ==
    /\ FileDone(Call("read_row", 0, <<>>, NoFilter),
                [ok |-> r.ok, exc |-> r.exc,
                 val |-> [none |-> r.none, row |-> r.row, begin |-> r.begin,
                          end |-> r.end]], r.f)
    /\ scanned' = IF r.ok /\ ~r.none
                  THEN [scanned EXCEPT !.recs = Append(@, [row |-> r.row,
                                                            begin |-> r.begin,
                                                            end |-> r.end])]
                  ELSE scanned
    /\ UNCHANGED written

FRead == FileRead(read_row(schema, [bytes |-> file, pos |-> pos]))

NextFile == FWrite \/ FSeek \/ FRead

SpecFile == InitFile /\ [][NextFile]_vars

---------------------------------------------------------------------------
(* Database (runner.py, meta.py).  A database state is [tables, metadata,  *)
(* metaJson, disk, heap]; a result is [ok, exc, val, db].  Names are       *)
(* sequences of code points.  A TableSchema object is [fields |-> r], r    *)
(* the place in the heap of its fields mapping; heap[r] is [fields, held], *)
(* fields the mapping as the sequence of its Field values in key order     *)
(* (each key is the name of its Field), held whether the caller holds a    *)
(* schema that refers to it.                                               *)

DbResult(ok, exc, val, d) == [ok |-> ok, exc |-> exc, val |-> val, db |-> d]

\* Field(name, datatype)
Field(name, datatype) == [name |-> name, datatype |-> datatype, nullable |-> FALSE]

\* serialize_dtype: dt.__name__ (a class is held as its name)
serialize_dtype(dt) == dt

\* deserialize_dtype: [ok, dt]; ok is FALSE for ValueError("unknown dtype")
deserialize_dtype(name) ==
    IF name \in {"Int", "Str", "Bool", "DateTime"}
    THEN [ok |-> TRUE, dt |-> name]
    ELSE [ok |-> FALSE, dt |-> ""]

\* the fields mapping a schema object refers to
FieldsOf(hp, sch) == hp[sch.fields].fields

\* schema.model_copy(): a new TableSchema object that refers to the same
\* fields mapping (deep is False)
model_copy(sch) == [fields |-> sch.fields]

\* Field.model_dump(mode="json")
FieldJson(f) ==
    [name |-> f.name, datatype |-> serialize_dtype(f.datatype), nullable |-> f.nullable]

\* TableSchema.model_dump(mode="json")
SchemaJson(hp, sch) ==
    [fields |-> [i \in 1..Len(FieldsOf(hp, sch)) |-> FieldJson(FieldsOf(hp, sch)[i])]]

\* json.dumps(meta.model_dump(mode="json"))
MetaJson(md, hp) ==
    [i \in 1..Len(md) |-> [name |-> md[i].name, filename |-> md[i].filename,
                           schema |-> SchemaJson(hp, md[i].schema)]]

\* Database._write_metadata
write_metadata(d) == [d EXCEPT !.metaJson = MetaJson(d.metadata, d.heap)]

\* f"table_{name}.dat"
Filename(name) == [stem |-> name, ext |-> ".dat"]

\* filepath + ".idx"
IdxPath(filepath) == [filepath EXCEPT !.ext = ".dat.idx"]

\* whether open(path, "a+b") finds no directory for the file: the stem
\* holds a "/"
NoDirectory(filepath) == \E i \in 1..Len(filepath.stem) : filepath.stem[i] = 47

\* the bytes of a file, none when it does not exist yet
DiskBytes(dk, path) == IF path \in DOMAIN dk THEN dk[path] ELSE <<>>

\* the disk after open(path, "a+b") of the data file and of the index file
WithFiles(dk, filepath) ==
    [q \in DOMAIN dk \cup {filepath, IdxPath(filepath)} |-> DiskBytes(dk, q)]

\* Table(name, filepath, schema): [ok, exc, table, disk]
NewTable(dk, name, filepath, sch) ==
    IF NoDirectory(filepath)
    THEN [ok |-> FALSE, exc |-> "FileNotFoundError", table |-> <<>>, disk |-> dk]
    ELSE [ok |-> TRUE, exc |-> "",
          table |-> [name |-> name, filepath |-> filepath, schema |-> sch,
                     pos |-> Len(DiskBytes(dk, filepath)),
                     tree |-> load(DiskBytes(dk, IdxPath(filepath))),
                     fileClosed |-> FALSE, indexClosed |-> FALSE],
          disk |-> WithFiles(dk, filepath)]

\* self.tables[name] = table
PutTable(tbs, name, t) == [n \in DOMAIN tbs \cup {name} |-> IF n = name THEN t ELSE tbs[n]]

\* Database.create_table after Table(...) returned or raised t
CreateInserted(d, name, t) ==
    IF ~t.ok THEN DbResult(FALSE, t.exc, <<>>, d)
    ELSE DbResult(TRUE, "", t.table,
                  [d EXCEPT !.tables = PutTable(@, name, t.table), !.disk = t.disk])

\* Database.create_table after the metadata was flushed
CreateFlushed(d, name, sch) ==
    CreateInserted(d, name, NewTable(d.disk, name, Filename(name), sch))

\* a create_table that appends the TableMeta without looking for the name
create_table_NoCheck(d, name, S) ==
    CreateFlushed(write_metadata(
        [d EXCEPT !.metadata = Append(@, [name |-> name, filename |-> Filename(name),
                                         schema |-> model_copy(S)])]),
        name, model_copy(S))

\* Database.create_table
create_table(d, name, S) ==
    IF name \in DOMAIN d.tables THEN DbResult(FALSE, "ValueError", <<>>, d)
    ELSE CreateFlushed(write_metadata(
             [d EXCEPT !.metadata = Append(@, [name |-> name, filename |-> Filename(name),
                                              schema |-> model_copy(S)])]),
             name, model_copy(S))

\* Database.get_table: the Table, or None as <<>>
get_table(d, name) == IF name \notin DOMAIN d.tables THEN <<>> ELSE d.tables[name]

\* a delete_table that leaves both files on the disk
Removed_KeepFiles(dk, filepath) == dk

\* the disk after os.remove of the data file and of the index file
Removed(dk, filepath) == [q \in DOMAIN dk \ {filepath, IdxPath(filepath)} |-> dk[q]]

\* the table map after self.tables.pop(name)
PopTable(tbs, name) == [n \in DOMAIN tbs \ {name} |-> tbs[n]]

\* the catalog without the entries called name
RECURSIVE WithoutName(_, _)
WithoutName(md, name) ==
    IF md = <<>> THEN <<>>
    ELSE IF Head(md).name = name THEN WithoutName(Tail(md), name)
    ELSE <<Head(md)>> \o WithoutName(Tail(md), name)

\* a delete_table that leaves the entry in the catalog
DeleteClosed_KeepMeta(d, name, t) ==
    DbResult(TRUE, "", [t EXCEPT !.fileClosed = TRUE, !.indexClosed = TRUE],
             write_metadata([d EXCEPT !.disk = Removed(@, t.filepath),
                                      !.tables = PopTable(@, name)]))

\* a delete_table that leaves the index handle open
DeleteClosed_IndexOpen(d, name, t) ==
    DbResult(TRUE, "", [t EXCEPT !.fileClosed = TRUE],
             write_metadata([d EXCEPT !.disk = Removed(@, t.filepath),
                                      !.tables = PopTable(@, name),
                                      !.metadata = WithoutName(@, name)]))

\* Database.delete_table of the Table t: close both handles (the index is
\* dumped), remove both files, pop the table, filter the catalog, flush
DeleteClosed(d, name, t) ==
    IF t.filepath \notin DOMAIN d.disk \/ IdxPath(t.filepath) \notin DOMAIN d.disk
    THEN DbResult(FALSE, "FileNotFoundError",
                  [t EXCEPT !.fileClosed = TRUE, !.indexClosed = TRUE],
                  [d EXCEPT !.disk = Removed(@, t.filepath)])
    ELSE DbResult(TRUE, "", [t EXCEPT !.fileClosed = TRUE, !.indexClosed = TRUE],
                  write_metadata([d EXCEPT !.disk = Removed(@, t.filepath),
                                           !.tables = PopTable(@, name),
                                           !.metadata = WithoutName(@, name)]))

\* Database.delete_table
delete_table(d, name) ==
    IF name \notin DOMAIN d.tables THEN DbResult(FALSE, "ValueError", <<>>, d)
    ELSE DeleteClosed(d, name, d.tables[name])

\* a TableSchema constructor that only asks for a field
validate_fields_AnyField(flds) == Len(flds) > 0

\* TableSchema.validate_fields: at least one field, one of them id: Int
validate_fields(flds) ==
    /\ Len(flds) > 0
    /\ \E j \in 1..Len(flds) : flds[j].name = "id" /\ flds[j].datatype = "Int"

\* Field.deserialize_dt over the fields of one schema of meta.json
FieldsParsed(fj) ==
    [ok |-> \A j \in 1..Len(fj) : deserialize_dtype(fj[j].datatype).ok,
     fields |-> [j \in 1..Len(fj) |->
                    [name |-> fj[j].name, datatype |-> deserialize_dtype(fj[j].datatype).dt,
                     nullable |-> fj[j].nullable]]]

\* Metadata.model_validate_json: [ok, exc, metadata, heap]; entry i refers
\* to the fields mapping i of a heap of its own
read_metadata(js) ==
    IF \E i \in 1..Len(js) : ~FieldsParsed(js[i].schema.fields).ok
                             \/ ~validate_fields(FieldsParsed(js[i].schema.fields).fields)
    THEN [ok |-> FALSE, exc |-> "ValidationError", metadata |-> <<>>, heap |-> <<>>]
    ELSE [ok |-> TRUE, exc |-> "",
          metadata |-> [i \in 1..Len(js) |-> [name |-> js[i].name,
                                              filename |-> js[i].filename,
                                              schema |-> [fields |-> i]]],
          heap |-> [i \in 1..Len(js) |->
                      [fields |-> FieldsParsed(js[i].schema.fields).fields,
                       held |-> FALSE]]]

\* Database._init_tables from entry i on: [ok, exc, tables, disk]
RECURSIVE InitTables(_, _, _, _)
InitStep(md, i, tbs, t) ==
    IF ~t.ok THEN [ok |-> FALSE, exc |-> t.exc, tables |-> tbs, disk |-> t.disk]
    ELSE InitTables(md, i + 1, PutTable(tbs, md[i].name, t.table), t.disk)

InitTables(md, i, tbs, dk) ==
    IF i > Len(md) THEN [ok |-> TRUE, exc |-> "", tables |-> tbs, disk |-> dk]
    ELSE InitStep(md, i, tbs, NewTable(dk, md[i].name, md[i].filename, md[i].schema))

\* Database.__init__ after _init_tables ended with it
DatabaseInited(js, rd, it) ==
    DbResult(it.ok, it.exc, 0,
             [tables |-> it.tables, metadata |-> rd.metadata, metaJson |-> js,
              disk |-> it.disk, heap |-> rd.heap])

\* Database.__init__ after _read_metadata ended with rd
DatabaseRead(js, dk, rd) ==
    IF ~rd.ok
    THEN DbResult(FALSE, rd.exc, 0, [tables |-> [n \in {} |-> 0], metadata |-> <<>>,
                                     metaJson |-> js, disk |-> dk, heap |-> <<>>])
    ELSE DatabaseInited(js, rd, InitTables(rd.metadata, 1, [n \in {} |-> 0], dk))

\* Database.__init__ on a data_root that holds meta.json and the files dk
Database(js, dk) == DatabaseRead(js, dk, read_metadata(js))

---------------------------------------------------------------------------
(* The Database specification: one Database constructed on an empty        *)
(* data_root.  The caller builds schemas and creates and deletes tables,   *)
(* inserts rows into them, changes the fields mapping of a schema it       *)
(* passed to create_table, and constructs a fresh Database on the same     *)
(* data_root.                                                              *)

\* table names: "a", "b" and "x/y"
DbNames == {<<97>>, <<98>>, <<120, 47, 121>>}

\* the fields mappings of the schemas callers build
SchemaChoices ==
    {<<Field("id", "Int")>>,
     <<Field("id", "Int"), Field("name", "Str")>>,
     <<Field("name", "Str"), Field("id", "Int")>>,
     <<Field("id", "Int"), Field("price", "Real")>>}

\* the variables of the Table specifications, which no Database call changes
tableVars == <<schema, file, pos, tree, idxFile, written, scanned,
               nCreate, topDel, lastTop, kills>>

\* the database state held by the variables
Db == [tables |-> tables, metadata |-> metadata, metaJson |-> metaJson,
       disk |-> disk, heap |-> heap]

\* the variables after a call on the Database returned or raised r
DbDone(c, r) ==
    /\ tables' = r.db.tables
    /\ metadata' = r.db.metadata
    /\ metaJson' = r.db.metaJson
    /\ disk' = r.db.disk
    /\ heap' = r.db.heap
    /\ call' = c
    /\ ret' = [ok |-> r.ok, exc |-> r.exc, val |-> r.val]
    /\ pre' = Db

\* Database() on an empty data_root: an empty meta.json is written
InitDb ==
    /\ schema = TestSchema
    /\ file = <<>>
    /\ pos = 0
    /\ tree = EmptyTree
    /\ idxFile = <<>>
    /\ call = Call("Database", <<>>, <<>>, NoFilter)
    /\ ret = [ok |-> TRUE, exc |-> "", val |-> 0]
    /\ pre = [tables |-> [n \in {} |-> 0], metadata |-> <<>>, metaJson |-> <<>>,
              disk |-> [n \in {} |-> <<>>], heap |-> <<>>]
    /\ written = <<>>
    /\ scanned = [active |-> FALSE, recs |-> <<>>]
    /\ nCreate = 0
    /\ topDel = FALSE
    /\ lastTop = -1
    /\ kills = 0
    /\ tables = [n \in {} |-> 0]
    /\ metadata = <<>>
    /\ metaJson = <<>>
    /\ disk = [n \in {} |-> <<>>]
    /\ heap = <<>>
    /\ dropped = [n \in {} |-> 0]
    /\ frame = NoFrame

\* the variables after create_table(name, S) returned or raised r; the
\* schema of a call that raised for the name is garbage
TableCreated(name, flds, r) ==
    DbDone(Call("create_table", name, flds, NoFilter),
           IF ~r.ok /\ r.exc = "ValueError" THEN [r EXCEPT !.db.heap = heap] ELSE r)

\* S = TableSchema(fields=flds); db.create_table(name, S)
CreateTable ==
    \E name \in DbNames, flds \in SchemaChoices :
        /\ Len(metadata) < MaxTables
        /\ Len(heap) < MaxObjects
        /\ TableCreated(name, flds,
                        create_table([Db EXCEPT !.heap = Append(@, [fields |-> flds,
                                                                     held |-> TRUE])],
                                     name, [fields |-> Len(heap) + 1]))
        /\ UNCHANGED <<tableVars, dropped, frame>>

\* the variables after delete_table(name) returned or raised r: the caller
\* keeps the Table it got from get_table(name) before
TableDropped(name, r) ==
    /\ DbDone(Call("delete_table", name, <<>>, NoFilter), r)
    /\ dropped' = IF r.ok THEN PutTable(dropped, name, r.val) ELSE dropped

\* t = db.get_table(name); db.delete_table(name)
DeleteTable ==
    \E name \in DbNames :
        /\ TableDropped(name, delete_table(Db, name))
        /\ UNCHANGED <<tableVars, frame>>

\* the row a caller inserts into a table of the schema: -1 for an Int, "a"
\* for a Str
RowFor(sch) ==
    [i \in 1..Len(sch) |-> IF sch[i].datatype = "Int" THEN IntV(-1) ELSE StrV(<<97>>)]

\* the schema has an id and only Int and Str fields
Insertable(sch) ==
    /\ FieldPos(sch, "id") # 0
    /\ \A i \in 1..Len(sch) : sch[i].datatype \in {"Int", "Str"}

\* the table state of the Table t of the database d
TableState(d, t) ==
    [bytes |-> d.disk[t.filepath], pos |-> t.pos, tree |-> t.tree,
     idx |-> d.disk[IdxPath(t.filepath)]]

\* the database after a call on its Table t left the table state tb
WithTableState(d, t, tb) ==
    [d EXCEPT !.tables[t.name].pos = tb.pos,
              !.tables[t.name].tree = tb.tree,
              !.disk[t.filepath] = tb.bytes,
              !.disk[IdxPath(t.filepath)] = tb.idx]

\* the variables after table.create(row) on the Table t returned or raised r
Inserted(t, r) ==
    DbDone(Call("insert", t.name, <<>>, NoFilter),
           DbResult(r.ok, r.exc, r.val, WithTableState(Db, t, r.tb)))

\* db.get_table(name).create(row)
DbInsert ==
    \E name \in DOMAIN tables :
        /\ Insertable(FieldsOf(heap, tables[name].schema))
        /\ get_next_id(tables[name].tree) < MaxRows
        /\ Inserted(tables[name],
                    create(FieldsOf(heap, tables[name].schema),
                           TableState(Db, tables[name]),
                           RowFor(FieldsOf(heap, tables[name].schema))))
        /\ UNCHANGED <<tableVars, dropped, frame>>

\* what a caller does to the fields mapping of a schema: add a field, remove
\* the last field, replace the last field
Mutations(flds) ==
    {Append(flds, Field("extra", "Bool")),
     SubSeq(flds, 1, Len(flds) - 1),
     [flds EXCEPT ![Len(flds)] = Field(flds[Len(flds)].name, "Bool")]}

\* S.fields[...] = ..., del S.fields[...] on a schema S passed to create_table
MutateSchema ==
    \E r \in 1..Len(heap) :
        \E m \in Mutations(heap[r].fields) :
            /\ heap[r].held
            /\ heap[r].fields \in SchemaChoices
            /\ heap' = [heap EXCEPT ![r].fields = m]
            /\ call' = Call("mutate", r, m, NoFilter)
            /\ ret' = [ok |-> TRUE, exc |-> "", val |-> 0]
            /\ pre' = Db
            /\ UNCHANGED <<tables, metadata, metaJson, disk, dropped>>
            /\ UNCHANGED <<tableVars, frame>>

\* the variables after Database() on the same data_root returned or raised r:
\* the fresh Database takes the place of the old one and of the Tables the
\* caller held, which stay when the constructor raised
Restarted(r) ==
    /\ DbDone(Call("Database", <<>>, <<>>, NoFilter),
              IF r.ok THEN r ELSE [r EXCEPT !.db = [Db EXCEPT !.disk = r.db.disk]])
    /\ dropped' = IF r.ok THEN [n \in {} |-> 0] ELSE dropped

Restart ==
    /\ Restarted(Database(metaJson, disk))
    /\ UNCHANGED <<tableVars, frame>>

NextDb == CreateTable \/ DeleteTable \/ DbInsert \/ MutateSchema \/ Restart

SpecDb == InitDb /\ [][NextDb]_vars

---------------------------------------------------------------------------
(* Tables the caller holds after delete_table closed them.  Every          *)
(* TableFile method begins with `assert not self.is_closed`;               *)
(* TableIndex.dump returns at once when the index is closed.               *)

\* the table state of a Table t the caller holds: the files are those of
\* its paths, if any
HeldState(d, t) ==
    [bytes |-> DiskBytes(d.disk, t.filepath), pos |-> t.pos, tree |-> t.tree,
     idx |-> DiskBytes(d.disk, IdxPath(t.filepath))]

\* a TableFile method without the assertion
Asserted_Skip(t, tb, r) == r

\* assert not self.is_closed at the head of the TableFile method a Table
\* method calls first, the table state being tb; r is what the Table method
\* does when the assertion holds
Asserted(t, tb, r) ==
    IF t.fileClosed THEN TableResult(FALSE, "AssertionError", <<>>, tb) ELSE r

\* TableIndex.clear of the Table t: the dump is skipped when the index is
\* closed
HeldCleared(t, tb) ==
    IF t.indexClosed THEN [tb EXCEPT !.tree = EmptyTree] ELSE index_clear(tb)

\* the Table methods on the Table t whose table state is tb
HeldGet(sch, t, tb, id_) ==
    IF ~exists(tb.tree, id_) THEN TableResult(FALSE, "ValueError", <<>>, tb)
    ELSE Asserted(t, tb, get(sch, tb, id_))

HeldSelect(sch, t, tb) == Asserted(t, tb, select(sch, tb, NoFilter))

HeldCreate(sch, t, tb, row) == Asserted(t, tb, create(sch, tb, row))

HeldUpdate(sch, t, tb, row) == Asserted(t, tb, update(sch, tb, row))

HeldDelete(sch, t, tb, id_) == Asserted(t, tb, delete(sch, tb, IntV(id_)))

HeldFind(sch, t, tb, id_) == Asserted(t, tb, FindResult(tb, find(sch, tb, IntV(id_))))

HeldRefresh(sch, t, tb) == Asserted(t, HeldCleared(t, tb), refresh_indexes(sch, tb))

\* the names of the Table methods
TableOps == {"get", "select", "create", "update", "delete", "find", "refresh_indexes"}

\* the ids the caller asks a held Table for
HeldIds == {0, 1}

\* the call op with the id id_ on the held Table t
HeldCall(op, sch, t, tb, id_) ==
    CASE op = "get" -> HeldGet(sch, t, tb, id_)
      [] op = "select" -> HeldSelect(sch, t, tb)
      [] op = "create" -> HeldCreate(sch, t, tb, RowFor(sch))
      [] op = "update" -> HeldUpdate(sch, t, tb, WithId(sch, RowFor(sch), id_))
      [] op = "delete" -> HeldDelete(sch, t, tb, id_)
      [] op = "find" -> HeldFind(sch, t, tb, id_)
      [] OTHER -> HeldRefresh(sch, t, tb)

\* the variables after a call on the held Table called name returned or
\* raised r: a closed handle writes nothing to the disk
HeldDone(c, name, r) ==
    /\ dropped' = [dropped EXCEPT ![name].pos = r.tb.pos, ![name].tree = r.tb.tree]
    /\ call' = c
    /\ ret' = [ok |-> r.ok, exc |-> r.exc, val |-> r.val]
    /\ pre' = Db
    /\ UNCHANGED <<tables, metadata, metaJson, disk, heap>>

\* t.get(i), t.select(), ... on a Table t that delete_table closed
HeldOp ==
    \E name \in DOMAIN dropped, op \in TableOps, id_ \in HeldIds :
        /\ op \in {"select", "create", "refresh_indexes"} => id_ = 0
        /\ HeldDone(Call(op, id_, name, NoFilter), name,
                    HeldCall(op, FieldsOf(heap, dropped[name].schema), dropped[name],
                             HeldState(Db, dropped[name]), id_))
        /\ UNCHANGED <<tableVars, frame>>

NextClosed == CreateTable \/ DeleteTable \/ DbInsert \/ HeldOp

SpecClosed == InitDb /\ [][NextClosed]_vars

---------------------------------------------------------------------------
(* The process stops inside delete_table before meta.json is rewritten,    *)
(* and a fresh process constructs a Database on the same data_root.        *)

\* where delete_table stopped: after both close calls, after the first
\* os.remove, after the second
KillPoints == {"closed", "data_removed", "both_removed"}

\* the files delete_table left when it stopped at the point
DiskAtKill(dk, filepath, point) ==
    CASE point = "closed" -> dk
      [] point = "data_removed" -> [q \in DOMAIN dk \ {filepath} |-> dk[q]]
      [] OTHER -> Removed(dk, filepath)

\* a Database whose constructor raised: the process has no Database
NoDb(r) ==
    [r EXCEPT !.db = [tables |-> [n \in {} |-> 0], metadata |-> <<>>,
                      metaJson |-> r.db.metaJson, disk |-> r.db.disk, heap |-> <<>>]]

\* the variables after the fresh process's Database() returned or raised r
Recovered(name, point, r) ==
    /\ DbDone(Call("delete_table_killed", name, point, NoFilter),
              IF r.ok THEN r ELSE NoDb(r))
    /\ dropped' = [n \in {} |-> 0]
    /\ kills' = kills + 1
    /\ UNCHANGED <<schema, file, pos, tree, idxFile, written, scanned,
                   nCreate, topDel, lastTop, frame>>

\* delete_table(name) of a present table stopped at a kill point; Database()
\* in a fresh process
DeleteTableKilled ==
    \E name \in DOMAIN tables, point \in KillPoints :
        /\ kills < MaxKills
        /\ Recovered(name, point,
                     Database(metaJson, DiskAtKill(disk, tables[name].filepath, point)))

\* the process has a Database: the constructor of the fresh process returned
Alive == call.name = "delete_table_killed" => ret.ok

NextCrash ==
    \/ Alive /\ CreateTable
    \/ Alive /\ DeleteTable
    \/ Alive /\ DbInsert
    \/ Alive /\ DeleteTableKilled

SpecCrash == InitDb /\ [][NextCrash]_vars

---------------------------------------------------------------------------
(* The TableIndex specification: set, delete and clear on one TableIndex   *)
(* opened on a new file.  pos.to_bytes(8, signed=False) raises             *)
(* OverflowError for a negative offset; the index file is buffered, so     *)
(* what a dump that raised has written is on the disk or not yet.          *)

\* ids and offsets the caller passes: -1 is no offset
IndexIds == {-1, 0, 1}
IndexOffsets == {-1, 0, 12, 300}

\* the keys of the tree that dump writes in full before it reaches an
\* offset it cannot encode
DumpedKeys(tr) == {k \in DOMAIN tr : \A j \in DOMAIN tr : j <= k => tr[j] >= 0}

\* TableIndex.dump: the outcomes [ok, exc, idx]
DumpOutcomes(tr) ==
    IF \A k \in DOMAIN tr : tr[k] >= 0
    THEN {[ok |-> TRUE, exc |-> "", idx |-> dump(tr)]}
    ELSE {[ok |-> FALSE, exc |-> "OverflowError", idx |-> <<>>],
          [ok |-> FALSE, exc |-> "OverflowError",
           idx |-> DumpEntries(tr, DumpedKeys(tr))
                   \o PackLE32(MinOf(DOMAIN tr \ DumpedKeys(tr)))]}

\* self.tree.pop(id_, None): the tree without the key
TreePop(tr, id_) == [k \in DOMAIN tr \ {id_} |-> tr[k]]

\* the value self.tree.pop(id_, None) returns, None as -1
Popped(tr, id_) == IF exists(tr, id_) THEN tr[id_] ELSE -1

\* a delete that does not dump
index_delete_NoDump(tr, idx, id_) ==
    {[ok |-> TRUE, exc |-> "", val |-> Popped(tr, id_), tree |-> TreePop(tr, id_),
      idx |-> idx]}

\* TableIndex.delete: the outcomes [ok, exc, val, tree, idx]
index_delete(tr, idx, id_) ==
    {[ok |-> o.ok, exc |-> o.exc, val |-> Popped(tr, id_), tree |-> TreePop(tr, id_),
      idx |-> o.idx] : o \in DumpOutcomes(TreePop(tr, id_))}

\* TableIndex.set: the outcomes
IndexSetOutcomes(tr, id_, p) ==
    {[ok |-> o.ok, exc |-> o.exc, val |-> 0, tree |-> TreeSet(tr, id_, p),
      idx |-> o.idx] : o \in DumpOutcomes(TreeSet(tr, id_, p))}

\* TableIndex.clear: the outcomes
IndexClearOutcomes ==
    {[ok |-> o.ok, exc |-> o.exc, val |-> 0, tree |-> EmptyTree, idx |-> o.idx] :
        o \in DumpOutcomes(EmptyTree)}

\* the variables after a TableIndex call ended with the outcome o
IndexDone(c, o) ==
    /\ tree' = o.tree
    /\ idxFile' = o.idx
    /\ call' = c
    /\ ret' = [ok |-> o.ok, exc |-> o.exc, val |-> o.val]
    /\ pre' = [pre EXCEPT !.tree = tree, !.idx = idxFile]
    /\ UNCHANGED <<schema, file, pos, written, scanned, nCreate, topDel, lastTop, kills>>

IndexSet ==
    \E i \in IndexIds, p \in IndexOffsets :
        \E o \in IndexSetOutcomes(tree, i, p) :
            /\ IndexDone(Call("set", i, <<p>>, NoFilter), o)
            /\ UNCHANGED <<dbVars, frame>>

IndexDelete ==
    \E i \in IndexIds :
        \E o \in index_delete(tree, idxFile, i) :
            /\ IndexDone(Call("delete", i, <<>>, NoFilter), o)
            /\ UNCHANGED <<dbVars, frame>>

IndexClear ==
    \E o \in IndexClearOutcomes :
        /\ IndexDone(Call("clear", 0, <<>>, NoFilter), o)
        /\ UNCHANGED <<dbVars, frame>>

NextIndex == IndexSet \/ IndexDelete \/ IndexClear

SpecIndex == Init /\ [][NextIndex]_vars

---------------------------------------------------------------------------
(* The codec specification: a value is encoded with to_bytes and the bytes *)
(* are decoded with from_bytes of the same class.                          *)

\* the int values of Int objects: the ends of the range of struct ">i",
\* values around the byte boundaries, and two values outside the range
CodecInts ==
    {IntV(n) : n \in {0, 1, -1, 127, 128, 255, 256, -256, 65280, 16777216,
                      2147483647, -2147483647 - 1}}
    \cup {WideInt(1, 0), WideInt(-1, 0)}

\* the str values of Str objects: up to two code points, of one and of two
\* bytes
CodecChars == {0, 97, 233, 2047}
CodecStrs ==
    {StrV(<<>>)} \cup {StrV(<<c>>) : c \in CodecChars}
    \cup {StrV(<<c, e>>) : c \in CodecChars, e \in CodecChars}

\* the datetime values of DateTime objects: before and after the epoch,
\* within and beyond 32 bits of seconds, with and without microseconds
CodecDateTimes ==
    {DateTimeV(hi, n, us) : hi \in {-1, 0, 1},
                            n \in {-1, 0, 1, 2147483647, -2147483647 - 1},
                            us \in {0, 500000}}

CodecValues == CodecInts \cup {BoolV(TRUE), BoolV(FALSE)} \cup CodecStrs \cup CodecDateTimes

\* the variables after a codec call on the value v ended with r
CodecDone(name, v, r) ==
    /\ call' = Call(name, 0, <<v>>, NoFilter)
    /\ ret' = r
    /\ UNCHANGED <<schema, file, pos, tree, idxFile, pre, written, scanned,
                   nCreate, topDel, lastTop, kills>>

\* raw = v.to_bytes()
Encode ==
    \E v \in CodecValues :
        /\ CodecDone("to_bytes", v, [ok |-> to_bytes(v).ok, exc |-> to_bytes(v).exc,
                                     val |-> to_bytes(v).bytes])
        /\ UNCHANGED <<dbVars, frame>>

\* type(v).from_bytes(raw) of the bytes to_bytes returned
Decode ==
    /\ call.name = "to_bytes"
    /\ ret.ok
    /\ CodecDone("from_bytes", call.row[1], from_bytes(call.row[1].t, ret.val))
    /\ UNCHANGED <<dbVars, frame>>

NextCodec == Encode \/ Decode

SpecCodec == Init /\ [][NextCodec]_vars

---------------------------------------------------------------------------
(* The erase specification: bytes are written directly into an empty table *)
(* file and erase is called on it, as test_erase does.                     *)

\* the bytes written into the file: "world,"
EraseBytes == <<119, 111, 114, 108, 100, 44>>

InitErase ==
    /\ schema = TestSchema
    /\ file = EraseBytes
    /\ pos = Len(EraseBytes)
    /\ tree = EmptyTree
    /\ idxFile = <<>>
    /\ call = Call("open", 0, <<>>, NoFilter)
    /\ ret = [ok |-> TRUE, exc |-> "", val |-> 0]
    /\ pre = [bytes |-> <<>>, tree |-> EmptyTree, idx |-> <<>>, top |-> -1]
    /\ written = <<>>
    /\ scanned = [active |-> FALSE, recs |-> <<>>]
    /\ nCreate = 0
    /\ topDel = FALSE
    /\ lastTop = -1
    /\ kills = 0
    /\ NoDatabase

\* the variables after erase(begin, end) returned or raised e
FileErased(begin, end, e) ==
    FileDone(Call("erase", begin, <<end>>, NoFilter),
             [ok |-> e.ok, exc |-> e.exc, val |-> 0], e.f)

\* file.erase(begin, end), the offsets up to one past the end of the file
Erase ==
    \E begin \in 0..(Len(file) + 1), end \in 0..(Len(file) + 1) :
        /\ FileErased(begin, end, erase([bytes |-> file, pos |-> pos], begin, end))
        /\ UNCHANGED <<written, scanned>>

\* file.seek(p)
EraseSeek ==
    \E p \in 0..Len(file) :
        /\ FileDone(Call("seek", p, <<>>, NoFilter), [ok |-> TRUE, exc |-> "", val |-> 0],
                    seek([bytes |-> file, pos |-> pos], p).f)
        /\ UNCHANGED <<written, scanned>>

NextErase == Erase \/ EraseSeek

SpecErase == InitErase /\ [][NextErase]_vars

---------------------------------------------------------------------------
(* The rebuild specification: records with distinct ids are written to the *)
(* data file without the index following (the process stopped between the  *)
(* file write and the index dump), the index holds whatever it held, and   *)
(* refresh_indexes rebuilds it.                                            *)

\* the ids of the records written: 65280 is 00 00 FF 00
RebuildIds == {0, 1, 65280}

\* the ids and offsets of a stale index: 5 is the start of no record
StaleIds == {0, 1}
StaleOffsets == {0, 5}
StaleTrees == UNION {[S -> StaleOffsets] : S \in SUBSET StaleIds}

\* the ids of the records written so far
WrittenIds == {IdOf(schema, written[k].row).n : k \in 1..Len(written)}

\* file.write_row(row) of a row whose id no record holds; the index is
\* left as it is
RebuildWrite ==
    \E i \in RebuildIds \ WrittenIds, nm \in Names :
        /\ Len(written) < MaxWrites
        /\ FileWritten(Row(schema, <<IntV(i), nm>>),
                       write_row(schema, [bytes |-> file, pos |-> pos],
                                 Row(schema, <<IntV(i), nm>>)))

\* the index as a stopped process left it: any map in memory after load,
\* any dumped map in the index file
Desync ==
    \E tr \in StaleTrees :
        /\ tree' = tr
        /\ idxFile' = dump(tr)
        /\ call' = Call("load", 0, <<>>, NoFilter)
        /\ ret' = [ok |-> TRUE, exc |-> "", val |-> 0]
        /\ pre' = [bytes |-> file, tree |-> tree, idx |-> idxFile, top |-> lastTop]
        /\ UNCHANGED <<schema, file, pos, written, scanned, nCreate, topDel, lastTop, kills>>
        /\ UNCHANGED <<dbVars, frame>>

\* table.refresh_indexes()
Refresh ==
    /\ Done(Call("refresh_indexes", 0, <<>>, NoFilter), refresh_indexes(schema, Tb))
    /\ UNCHANGED <<nCreate, topDel, lastTop>>

NextRebuild == RebuildWrite \/ Desync \/ Refresh

SpecRebuild == Init /\ [][NextRebuild]_vars

---------------------------------------------------------------------------
(* The command-line interpreter: repl reads a query, parses it into a      *)
(* Command and hands it to Executor.execute, which works on the Database.  *)
(* repl catches ParseError and KeyboardInterrupt; any other exception      *)
(* leaves the loop.                                                        *)

\* FieldWithDType(field, dtype)
FieldWithDType(field, dtype) == [field |-> field, dtype |-> dtype]

\* fields[key] = f on an OrderedDict held as the sequence of its values: an
\* existing key keeps its place
RECURSIVE DictSet(_, _)
DictSet(flds, f) ==
    IF flds = <<>> THEN <<f>>
    ELSE IF Head(flds).name = f.name THEN <<f>> \o Tail(flds)
    ELSE <<Head(flds)>> \o DictSet(Tail(flds), f)

\* the OrderedDict Executor.create_table builds from query.fields
RECURSIVE FieldsDict(_, _)
FieldsDict(qfields, flds) ==
    IF qfields = <<>> THEN flds
    ELSE FieldsDict(Tail(qfields),
                    DictSet(flds, Field(Head(qfields).field, Head(qfields).dtype)))

\* what Executor.create_table prints after db.create_table returned or
\* raised r
TablePrinted(r) == [r EXCEPT !.val = IF r.ok THEN "created" ELSE ""]

\* Executor.create_table from TableSchema(fields=fields) on
SchemaBuilt(d, name, flds) ==
    IF ~validate_fields(flds) THEN DbResult(FALSE, "ValidationError", "", d)
    ELSE TablePrinted(create_table([d EXCEPT !.heap = Append(@, [fields |-> flds,
                                                                 held |-> FALSE])],
                                   name, [fields |-> Len(d.heap) + 1]))

\* Executor.create_table
ExecCreateTable(d, q) ==
    IF get_table(d, q.table) # <<>> THEN DbResult(TRUE, "", "already exists", d)
    ELSE SchemaBuilt(d, q.table, FieldsDict(q.fields, <<>>))

\* what Executor.drop_table prints after db.delete_table returned or raised r
DropPrinted(r) == [r EXCEPT !.val = IF r.ok THEN "dropped" ELSE ""]

\* Executor.drop_table
ExecDropTable(d, q) ==
    IF get_table(d, q.table) = <<>> THEN DbResult(TRUE, "", "does not exist", d)
    ELSE DropPrinted(delete_table(d, q.table))

\* the result of an Executor method after the call on the Table t returned
\* or raised r, msg being what it prints then
TablePrintedRows(d, t, r, msg) ==
    DbResult(r.ok, r.exc, IF r.ok THEN msg ELSE "", WithTableState(d, t, r.tb))

\* query.values["id"] = Int(-1)
WithDefaultId(values) ==
    [k \in DOMAIN values \cup {"id"} |-> IF k = "id" THEN IntV(-1) ELSE values[k]]

\* Row.from_raw_dict: [ok, exc, row]; KeyError for a name the schema lacks,
\* ValueError for a field without a value
from_raw_dict(sch, values) ==
    IF \E k \in DOMAIN values : FieldPos(sch, k) = 0
    THEN [ok |-> FALSE, exc |-> "KeyError", row |-> <<>>]
    ELSE IF \E i \in 1..Len(sch) : sch[i].name \notin DOMAIN values
    THEN [ok |-> FALSE, exc |-> "ValueError", row |-> <<>>]
    ELSE [ok |-> TRUE, exc |-> "", row |-> [i \in 1..Len(sch) |-> values[sch[i].name]]]

\* Executor.insert after Row.from_raw_dict returned or raised p
RowInserted(d, t, sch, p) ==
    IF ~p.ok THEN DbResult(FALSE, p.exc, "", d)
    ELSE TablePrintedRows(d, t, create(sch, TableState(d, t), p.row), "rows")

\* Executor.insert
ExecInsert(d, q) ==
    IF get_table(d, q.table) = <<>> THEN DbResult(TRUE, "", "does not exist", d)
    ELSE RowInserted(d, d.tables[q.table], FieldsOf(d.heap, d.tables[q.table].schema),
                     from_raw_dict(FieldsOf(d.heap, d.tables[q.table].schema),
                                   WithDefaultId(q.values)))

\* print_rows(rows, fields): KeyError when a row lacks one of the fields
RowsPrinted(sch, r, fields) ==
    IF r.ok /\ r.val # <<>> /\ \E f \in fields : FieldPos(sch, f) = 0
    THEN [r EXCEPT !.ok = FALSE, !.exc = "KeyError"]
    ELSE r

\* Executor.select once the table was found
TableSelected(d, t, sch, q) ==
    IF \E k \in DOMAIN q.conditions : FieldPos(sch, k) = 0
    THEN DbResult(FALSE, "KeyError", "", d)
    ELSE TablePrintedRows(d, t,
                          RowsPrinted(sch, select(sch, TableState(d, t), q.conditions),
                                      q.fields),
                          "rows")

\* Executor.select; the conditions hold an int for an Int field and a str
\* for a Str field, which value_to_dtype wraps
ExecSelect(d, q) ==
    IF get_table(d, q.table) = <<>> THEN DbResult(TRUE, "", "does not exist", d)
    ELSE TableSelected(d, d.tables[q.table],
                       FieldsOf(d.heap, d.tables[q.table].schema), q)

\* row.values[field] = value_to_dtype(value, ...) for each update
Updated(sch, row, updates) ==
    [i \in 1..Len(row) |-> IF sch[i].name \in DOMAIN updates
                           THEN updates[sch[i].name] ELSE row[i]]

\* Executor.update after table.get returned or raised g
RowGot(d, t, sch, q, g) ==
    IF ~g.ok /\ g.exc = "ValueError"
    THEN DbResult(TRUE, "", "row does not exist", WithTableState(d, t, g.tb))
    ELSE IF ~g.ok THEN DbResult(FALSE, g.exc, "", WithTableState(d, t, g.tb))
    ELSE IF \E k \in DOMAIN q.updates : FieldPos(sch, k) = 0
    THEN DbResult(FALSE, "KeyError", "", WithTableState(d, t, g.tb))
    ELSE TablePrintedRows(d, t, update(sch, g.tb, Updated(sch, g.val, q.updates)),
                          "updated")

\* Executor.update
ExecUpdate(d, q) ==
    IF get_table(d, q.table) = <<>> THEN DbResult(TRUE, "", "does not exist", d)
    ELSE IF "id" \in DOMAIN q.updates THEN DbResult(TRUE, "", "immutable", d)
    ELSE RowGot(d, d.tables[q.table], FieldsOf(d.heap, d.tables[q.table].schema), q,
                get(FieldsOf(d.heap, d.tables[q.table].schema),
                    TableState(d, d.tables[q.table]), q.id))

\* Executor.delete
ExecDelete(d, q) ==
    IF get_table(d, q.table) = <<>> THEN DbResult(TRUE, "", "does not exist", d)
    ELSE TablePrintedRows(d, d.tables[q.table],
                          delete(FieldsOf(d.heap, d.tables[q.table].schema),
                                 TableState(d, d.tables[q.table]), IntV(q.id)),
                          "deleted")

---------------------------------------------------------------------------
(* The interpreter specification: repl on a Database constructed on an     *)
(* empty data_root, fed queries over two table names.                      *)

\* table names: "a" and "b"
CliNames == {<<97>>, <<98>>}

\* the field lists of CREATE TABLE queries; the grammar asks for one field
\* at least, the empty list is a CreateTableQuery built without the parser
CliFieldLists ==
    {<<FieldWithDType("id", "Int")>>,
     <<FieldWithDType("id", "Int"), FieldWithDType("name", "Str")>>,
     <<FieldWithDType("name", "Str")>>,
     <<FieldWithDType("id", "Str")>>,
     <<FieldWithDType("id", "Str"), FieldWithDType("id", "Int")>>,
     <<FieldWithDType("id", "Int"), FieldWithDType("id", "Str")>>,
     <<>>}

\* the assignments of INSERT and UPDATE queries
CliValues ==
    {[k \in {"name"} |-> StrV(<<97>>)], [k \in {"ghost"} |-> StrV(<<97>>)]}

\* the assignments of INSERT queries: the grammar asks for one at least
CliInserts == CliValues \cup {[k \in {"id"} |-> IntV(5)]}

\* the conditions of SELECT queries
CliConditions ==
    {NoFilter, [k \in {"id"} |-> IntV(0)], [k \in {"ghost"} |-> IntV(0)]}

\* the field lists of SELECT queries
CliFields == {{"id"}, {"ghost"}}

\* the ids of UPDATE and DELETE queries
CliIds == {0, 1}

\* whether the query text of the command q parses
Parsed(q) == q.kind = "create_table" => q.fields # <<>>

\* the loop is at input(">>> "): no exception left executor.execute
AtPrompt == call.name = "execute" => ret.ok

\* the variables after executor.execute(q) returned or raised r
Executed(q, r) ==
    /\ DbDone(Call("execute", q.kind, q, NoFilter), r)
    /\ UNCHANGED <<tableVars, dropped, frame>>

CliCreateTable ==
    \E name \in CliNames, qfields \in CliFieldLists :
        /\ AtPrompt
        /\ Len(heap) < MaxObjects
        /\ Executed([kind |-> "create_table", table |-> name, fields |-> qfields],
                    ExecCreateTable(Db, [kind |-> "create_table", table |-> name,
                                         fields |-> qfields]))

CliDropTable ==
    \E name \in CliNames :
        /\ AtPrompt
        /\ Executed([kind |-> "drop_table", table |-> name],
                    ExecDropTable(Db, [kind |-> "drop_table", table |-> name]))

CliInsert ==
    \E name \in CliNames, values \in CliInserts :
        /\ AtPrompt
        /\ name \in DOMAIN tables => get_next_id(tables[name].tree) < MaxRows
        /\ Executed([kind |-> "insert", table |-> name, values |-> values],
                    ExecInsert(Db, [kind |-> "insert", table |-> name,
                                    values |-> values]))

CliSelect ==
    \E name \in CliNames, flds \in CliFields, conds \in CliConditions :
        /\ AtPrompt
        /\ Executed([kind |-> "select", table |-> name, fields |-> flds,
                     conditions |-> conds],
                    ExecSelect(Db, [kind |-> "select", table |-> name, fields |-> flds,
                                    conditions |-> conds]))

CliUpdate ==
    \E name \in CliNames, updates \in CliInserts, id_ \in CliIds :
        /\ AtPrompt
        /\ Executed([kind |-> "update", table |-> name, updates |-> updates,
                     id |-> id_],
                    ExecUpdate(Db, [kind |-> "update", table |-> name,
                                    updates |-> updates, id |-> id_]))

CliDelete ==
    \E name \in CliNames, id_ \in CliIds :
        /\ AtPrompt
        /\ Executed([kind |-> "delete", table |-> name, id |-> id_],
                    ExecDelete(Db, [kind |-> "delete", table |-> name, id |-> id_]))

\* a query the grammar rejects: repl prints the ParseError and goes on
CliParseError ==
    /\ AtPrompt
    /\ call' = Call("parse", "", <<>>, NoFilter)
    /\ ret' = [ok |-> TRUE, exc |-> "", val |-> "ParseError"]
    /\ pre' = Db
    /\ UNCHANGED <<dbVars, tableVars, frame>>

NextCli ==
    \/ CliCreateTable
    \/ CliDropTable
    \/ CliInsert
    \/ CliSelect
    \/ CliUpdate
    \/ CliDelete
    \/ CliParseError

SpecCli == InitDb /\ [][NextCli]_vars

---------------------------------------------------------------------------
(* The cursor specification: one TableFile on an empty file; rows are      *)
(* written, the cursor is moved to any position in and around the file,    *)
(* at_end, at_beginning and read_row are called there, the scans of Table  *)
(* are run on the file, and once the process stops inside the last         *)
(* write_row so that only a prefix of its record is in the file.           *)

\* the schemas of the cursor specification: {id: Int, name: Str}, {id: Int}
SeekSchemas == {TestSchema, <<[name |-> "id", datatype |-> "Int"]>>}

\* the rows written: the id 0 or 8323327 (00 7F 00 FF), the name "a"
SeekRows(sch) ==
    IF Len(sch) = 2 THEN {<<IntV(i), StrV(<<97>>)>> : i \in {0, 8323327}}
    ELSE {<<IntV(i)>> : i \in {0, 8323327}}

InitSeek ==
    /\ schema \in SeekSchemas
    /\ file = <<>>
    /\ pos = 0
    /\ tree = EmptyTree
    /\ idxFile = <<>>
    /\ call = Call("open", 0, <<>>, NoFilter)
    /\ ret = [ok |-> TRUE, exc |-> "", val |-> 0]
    /\ pre = [bytes |-> <<>>, pos |-> 0]
    /\ written = <<>>
    /\ scanned = [active |-> FALSE, recs |-> <<>>]
    /\ nCreate = 0
    /\ topDel = FALSE
    /\ lastTop = -1
    /\ kills = 0
    /\ NoDatabase

\* the variables after a TableFile call left the handle as f
SeekDone(c, r, f) ==
    /\ file' = f.bytes
    /\ pos' = f.pos
    /\ call' = c
    /\ ret' = r
    /\ pre' = [bytes |-> file, pos |-> pos]
    /\ UNCHANGED <<schema, tree, idxFile, scanned, nCreate, topDel, lastTop>>
    /\ UNCHANGED <<dbVars, frame>>

\* the variables after write_row(row) returned w
RowWritten(row, w) ==
    /\ SeekDone(Call("write_row", 0, row, NoFilter),
                [ok |-> w.ok, exc |-> w.exc, val |-> <<w.begin, w.end>>], w.f)
    /\ written' = Append(written, [row |-> row, ok |-> w.ok, begin |-> w.begin,
                                   end |-> w.end])

SeekWrite ==
    \E values \in SeekRows(schema) :
        /\ Len(written) < MaxWrites
        /\ kills = 0
        /\ RowWritten(Row(schema, values),
                      write_row(schema, [bytes |-> file, pos |-> pos],
                                Row(schema, values)))
        /\ UNCHANGED kills

\* the variables after seek(p) returned or raised s
Sought(p, s) ==
    SeekDone(Call("seek", p, <<>>, NoFilter), [ok |-> s.ok, exc |-> s.exc, val |-> 0],
             s.f)

\* seek(p) for every p in and around the file; seek does not look at the
\* position it leaves, so from a position inside the file only seek(0) and
\* seek(-1) are taken
SeekTo ==
    \E p \in (0 - Len(file) - 2)..(Len(file) + 1) :
        /\ pos \in {0, Len(file)} \/ p \in {0, -1}
        /\ Sought(p, seek([bytes |-> file, pos |-> pos], p))
        /\ UNCHANGED <<written, kills>>

\* TableFile.at_end as a call: file.seek(0, os.SEEK_END), then
\* file.seek(current_pos); [val, f]
AtEndCall(f) ==
    [val |-> at_end(f), f |-> [[f EXCEPT !.pos = Len(f.bytes)] EXCEPT !.pos = f.pos]]

\* the variables after at_end() or at_beginning() returned a
Asked(name, a) ==
    SeekDone(Call(name, 0, <<>>, NoFilter), [ok |-> TRUE, exc |-> "", val |-> a.val],
             a.f)

SeekAtEnd ==
    /\ Asked("at_end", AtEndCall([bytes |-> file, pos |-> pos]))
    /\ UNCHANGED <<written, kills>>

SeekAtBeginning ==
    /\ Asked("at_beginning", [val |-> at_beginning([bytes |-> file, pos |-> pos]),
                              f |-> [bytes |-> file, pos |-> pos]])
    /\ UNCHANGED <<written, kills>>

\* the variables after read_row() returned or raised r
RowRead(r) ==
    SeekDone(Call("read_row", 0, <<>>, NoFilter),
             [ok |-> r.ok, exc |-> r.exc,
              val |-> [none |-> r.none, row |-> r.row, begin |-> r.begin,
                       end |-> r.end]], r.f)

SeekRead ==
    /\ RowRead(read_row(schema, [bytes |-> file, pos |-> pos]))
    /\ UNCHANGED <<written, kills>>

\* the process stops inside the last write_row and only the first n bytes
\* of the file it was writing reach the disk, at least one of them and not
\* all of them the record's; a fresh TableFile opens the file "a+b"
Tear ==
    \E n \in 1..Len(file) :
        /\ kills < MaxKills
        /\ written # <<>>
        /\ written[Len(written)].begin < n
        /\ n < Len(file)
        /\ SeekDone(Call("torn", n, <<>>, NoFilter), [ok |-> TRUE, exc |-> "", val |-> 0],
                    [bytes |-> SubSeq(file, 1, n), pos |-> n])
        /\ kills' = kills + 1
        /\ UNCHANGED written

\* the scans of Table
Scans == {"select", "find", "refresh_indexes"}

\* the scan op of a Table on the table state tb
Scan(op, sch, tb) ==
    CASE op = "select" -> select(sch, tb, NoFilter)
      [] op = "find" -> FindResult(tb, find(sch, tb, IntV(1)))
      [] OTHER -> refresh_indexes(sch, tb)

\* the variables after a scan returned or raised r
Scanned(op, r) ==
    /\ file' = r.tb.bytes
    /\ pos' = r.tb.pos
    /\ tree' = r.tb.tree
    /\ idxFile' = r.tb.idx
    /\ call' = Call(op, 0, <<>>, NoFilter)
    /\ ret' = [ok |-> r.ok, exc |-> r.exc, val |-> 0]
    /\ pre' = [bytes |-> file, pos |-> pos]
    /\ UNCHANGED <<schema, written, scanned, nCreate, topDel, lastTop, kills>>
    /\ UNCHANGED <<dbVars, frame>>

SeekScan ==
    \E op \in Scans :
        /\ kills > 0
        /\ Scanned(op, Scan(op, schema, Tb))

NextSeek ==
    \/ SeekWrite
    \/ SeekTo
    \/ SeekAtEnd
    \/ SeekAtBeginning
    \/ SeekRead
    \/ Tear
    \/ SeekScan

SpecSeek == InitSeek /\ [][NextSeek]_vars

---------------------------------------------------------------------------
(* The process stops between two steps of Table.create, Table.update or    *)
(* Table.delete, and a fresh Table is constructed on the files: the data   *)
(* file is opened unbuffered, so what was written is in it; the index file *)
(* is buffered, so a dump that was not flushed leaves it truncated.        *)

\* where create stops: after write_row and before index.set; inside the
\* dump of index.set after truncate() and before flush()
CreatePoints == {"written", "dumping"}

\* where delete stops: inside erase after truncate(begin) and before
\* write(data); after erase and before refresh_indexes; inside
\* refresh_indexes after index.clear()
DeletePoints == {"truncated", "erased", "cleared"}

\* where update stops after its delete returned 1: before write_row; after
\* write_row and before index.set
UpdatePoints == {"deleted", "written"}

\* the variables after the process stopped inside the call c with the files
\* holding bytes and idx, and a fresh Table was constructed on them
Stopped(c, bytes, idx) ==
    /\ kills < MaxKills
    /\ file' = bytes
    /\ pos' = Len(bytes)
    /\ idxFile' = idx
    /\ tree' = load(idx)
    /\ call' = c
    /\ ret' = [ok |-> FALSE, exc |-> "SIGKILL", val |-> 0]
    /\ pre' = [bytes |-> file, tree |-> tree, idx |-> idxFile, top |-> lastTop]
    /\ kills' = kills + 1
    /\ scanned' = [active |-> FALSE, recs |-> <<>>, bytes |-> file, call |-> c]
    /\ UNCHANGED <<schema, written, nCreate, topDel, lastTop>>
    /\ UNCHANGED <<dbVars, frame>>

\* create(row) stopped at the point, write_row having returned w
CreateStoppedAt(c, point, w) ==
    /\ w.ok
    /\ Stopped(c, w.f.bytes, IF point = "written" THEN idxFile ELSE <<>>)

CreateStopped ==
    \E nm \in Names, point \in CreatePoints :
        /\ get_next_id(tree) <= MaxId
        /\ CreateStoppedAt(Call("create_stopped", get_next_id(tree),
                                <<IntV(get_next_id(tree)), nm>>, point), point,
                           write_row(schema, FileOf(Tb),
                                     Row(schema, <<IntV(get_next_id(tree)), nm>>)))

\* delete(i) stopped at the point, find having returned r
DeleteStoppedAt(c, point, r) ==
    /\ r.ok /\ r.found
    /\ Stopped(c,
               IF point = "truncated" THEN SubSeq(file, 1, r.begin)
               ELSE erase(r.f, r.begin, r.end).f.bytes,
               IF point = "cleared" THEN <<>> ELSE idxFile)

DeleteStopped ==
    \E i \in Ids, point \in DeletePoints :
        DeleteStoppedAt(Call("delete_stopped", i, <<>>, point), point,
                        find(schema, Tb, IntV(i)))

\* update(row) stopped at the point, its delete having returned d
UpdateStoppedAt(c, point, d, row) ==
    /\ d.ok /\ d.val = 1
    /\ Stopped(c,
               IF point = "deleted" THEN d.tb.bytes
               ELSE write_row(schema, seek(FileOf(d.tb), -1).f, row).f.bytes,
               d.tb.idx)

UpdateStopped ==
    \E i \in Ids, nm \in Names, point \in UpdatePoints :
        UpdateStoppedAt(Call("update_stopped", i, <<IntV(i), nm>>, point), point,
                        delete(schema, Tb, IntV(i)), Row(schema, <<IntV(i), nm>>))

\* after the stop the fresh process only creates rows
NextStopped ==
    \/ Create
    \/ kills = 0 /\ Update
    \/ kills = 0 /\ Delete
    \/ CreateStopped
    \/ DeleteStopped
    \/ UpdateStopped

SpecStopped == Init /\ [][NextStopped]_vars

\* the fresh process calls refresh_indexes and nothing else; calls run to
\* their end only before the stop
NextRecover ==
    \/ kills = 0 /\ Create
    \/ kills = 0 /\ Update
    \/ kills = 0 /\ Delete
    \/ DeleteStopped
    \/ UpdateStopped
    \/ kills > 0 /\ Refresh

SpecRecover == Init /\ [][NextRecover]_vars

---------------------------------------------------------------------------
(* The marketplace specification (marketplace/router.py): the request      *)
(* handlers of the rats table on one event loop.  A handler runs without   *)
(* interruption from one await to the next; upload_rat_image has one       *)
(* await, image.read(), between its RatTable.get and its RatTable.update,  *)
(* and any other request may be served while it is suspended there.  The   *)
(* frame holds the locals of the suspended upload.                         *)

\* the schema get_rats_table builds
RatSchema ==
    <<[name |-> "id", datatype |-> "Int"],
      [name |-> "created_at", datatype |-> "DateTime"],
      [name |-> "owner_id", datatype |-> "Int"],
      [name |-> "is_booked", datatype |-> "Bool"],
      [name |-> "name", datatype |-> "Str"],
      [name |-> "age_months", datatype |-> "Int"],
      [name |-> "gender", datatype |-> "Str"],
      [name |-> "price", datatype |-> "Int"],
      [name |-> "phone", datatype |-> "Str"],
      [name |-> "description", datatype |-> "Str"],
      [name |-> "image", datatype |-> "Str"]>>

RatFields == {RatSchema[i].name : i \in 1..Len(RatSchema)}

\* the fields a RatWrite body carries
RatWriteFields == {"name", "age_months", "gender", "price", "phone", "description"}

\* the request bodies: rat "a" (female, 1 month, price 1) and rat "b" (male,
\* 2 months, price 2)
RatWrites ==
    {[name |-> StrV(<<97>>), age_months |-> IntV(1), gender |-> StrV(<<102>>),
      price |-> IntV(1), phone |-> StrV(<<49>>), description |-> StrV(<<>>)],
     [name |-> StrV(<<98>>), age_months |-> IntV(2), gender |-> StrV(<<109>>),
      price |-> IntV(2), phone |-> StrV(<<50>>), description |-> StrV(<<120>>)]}

\* the ids the requests name: those of the rats the table may hold, and one more
RatIds == 0..MaxRows

\* the content types of the uploaded images
ContentTypes == {"image/png", "image/gif"}

\* the paths storage.upload returns (rats/<uuid4>.png): "p" and "q"
StoragePaths == {StrV(<<112>>), StrV(<<113>>)}

\* RatWrite.to_model: a Rat with the defaults of the model for the fields the
\* body lacks (created_at is the time of the request, second 1 here)
to_model(w) ==
    [k \in RatFields |->
        CASE k \in RatWriteFields -> w[k]
          [] k = "id" -> IntV(-1)
          [] k = "created_at" -> DateTimeV(0, 1, 0)
          [] k = "owner_id" -> IntV(-1)
          [] k = "is_booked" -> BoolV(FALSE)
          [] OTHER -> StrV(<<>>)]

\* Rat.from_row: the model built of row.to_raw_dict()
from_row(row) == [k \in RatFields |-> row[FieldPos(RatSchema, k)]]

\* Rat.to_row: Row.from_raw_dict(RatTable.schema, self.model_dump())
to_row(rat) == from_raw_dict(RatSchema, rat).row

\* rat_obj.name = rat.name, ..., rat_obj.description = rat.description
WithBody(rat, w) == [k \in RatFields |-> IF k \in RatWriteFields THEN w[k] ELSE rat[k]]

\* a handler that raised HTTPException(status_code)
HttpError(status, tb) == TableResult(FALSE, status, 0, tb)

\* create_rat
create_rat(tb, w) == create(RatSchema, tb, to_row(to_model(w)))

\* update_rat after RatTable.get returned or raised g: the ValueError of get
\* is not caught
RatUpdated(g, w) ==
    IF ~g.ok THEN g ELSE update(RatSchema, g.tb, to_row(WithBody(from_row(g.val), w)))

\* update_rat
update_rat(tb, rat_id, w) == RatUpdated(get(RatSchema, tb, rat_id), w)

\* delete_rat after RatTable.get returned or raised g
RatDeleted(g, rat_id) ==
    IF ~g.ok /\ g.exc = "ValueError" THEN HttpError("404", g.tb)
    ELSE IF ~g.ok THEN g
    ELSE delete(RatSchema, g.tb, IntV(rat_id))

\* delete_rat
delete_rat(tb, rat_id) == RatDeleted(get(RatSchema, tb, rat_id), rat_id)

\* upload_rat_image up to its await, after RatTable.get returned or raised g:
\* val is the Rat it holds while suspended
UploadRead(g, content_type) ==
    IF ~g.ok /\ g.exc = "ValueError" THEN HttpError("404", g.tb)
    ELSE IF ~g.ok THEN g
    ELSE IF content_type \notin {"image/png", "image/jpeg"} THEN HttpError("400", g.tb)
    ELSE [g EXCEPT !.val = from_row(g.val)]

\* upload_rat_image from its await on: rat.image = file, RatTable.update
upload_resumed(tb, rat, path) ==
    update(RatSchema, tb, to_row([rat EXCEPT !["image"] = path]))

\* the variables after a handler returned or raised r, f the frame it leaves
Handled(c, r, f) ==
    /\ file' = r.tb.bytes
    /\ pos' = r.tb.pos
    /\ tree' = r.tb.tree
    /\ idxFile' = r.tb.idx
    /\ call' = c
    /\ ret' = [ok |-> r.ok, exc |-> r.exc, val |-> r.val]
    /\ pre' = [bytes |-> file, tree |-> tree, idx |-> idxFile, top |-> lastTop]
    /\ frame' = f
    /\ UNCHANGED <<schema, written, scanned, kills, nCreate, topDel, lastTop>>
    /\ UNCHANGED dbVars

InitRats ==
    /\ schema = RatSchema
    /\ file = <<>>
    /\ pos = 0
    /\ tree = EmptyTree
    /\ idxFile = <<>>
    /\ call = Call("open", 0, <<>>, NoFilter)
    /\ ret = [ok |-> TRUE, exc |-> "", val |-> 0]
    /\ pre = [bytes |-> <<>>, tree |-> EmptyTree, idx |-> <<>>, top |-> -1]
    /\ written = <<>>
    /\ scanned = [active |-> FALSE, recs |-> <<>>]
    /\ nCreate = 0
    /\ topDel = FALSE
    /\ lastTop = -1
    /\ kills = 0
    /\ NoDatabase

CreateRat ==
    \E w \in RatWrites :
        /\ get_next_id(tree) < MaxRows
        /\ Handled(Call("create_rat", get_next_id(tree), w, NoFilter),
                   create_rat(Tb, w), frame)

UpdateRat ==
    \E i \in RatIds, w \in RatWrites :
        Handled(Call("update_rat", i, w, NoFilter), update_rat(Tb, i, w), frame)

DeleteRat ==
    \E i \in RatIds :
        Handled(Call("delete_rat", i, <<>>, NoFilter), delete_rat(Tb, i), frame)

\* the variables after upload_rat_image reached its await or raised r
Suspended(i, r) ==
    Handled(Call("upload_rat_image", i, <<>>, NoFilter), [r EXCEPT !.val = 0],
            IF r.ok THEN [live |-> TRUE, id |-> i, rat |-> r.val] ELSE frame)

\* upload_rat_image up to await image.read()
UploadRatImage ==
    \E i \in RatIds, ct \in ContentTypes :
        /\ ~frame.live
        /\ Suspended(i, UploadRead(get(schema, Tb, i), ct))

\* image.read() returned: upload_rat_image runs to its end
UploadResumed ==
    \E path \in StoragePaths :
        /\ frame.live
        /\ Handled(Call("upload_resumed", frame.id, path, NoFilter),
                   upload_resumed(Tb, frame.rat, path), NoFrame)

NextRats == CreateRat \/ UpdateRat \/ DeleteRat \/ UploadRatImage \/ UploadResumed

SpecRats == InitRats /\ [][NextRats]_vars

---------------------------------------------------------------------------
(* What the claims speak of: the records of a data file in physical order, *)
(* read with read_row from offset 0.                                       *)

RECURSIVE ScanLoop(_, _, _)
ScanStep(sch, recs, r) ==
    IF ~r.ok \/ r.none THEN [ok |-> r.ok, recs |-> recs]
    ELSE ScanLoop(sch, r.f, Append(recs, [row |-> r.row, begin |-> r.begin, end |-> r.end]))

ScanLoop(sch, f, recs) ==
    IF at_end(f) THEN [ok |-> TRUE, recs |-> recs]
    ELSE ScanStep(sch, recs, read_row(sch, f))

\* [ok, recs]: the records [row, begin, end] of the file, ok when every
\* read_row of the scan returned
Records(sch, bytes) == ScanLoop(sch, [bytes |-> bytes, pos |-> 0], <<>>)

\* the ids of a sequence of records
RecIds(sch, recs) == {IdOf(sch, recs[k].row).n : k \in 1..Len(recs)}

\* the rows of a sequence of records, in order
RowsOf(recs) == [k \in 1..Len(recs) |-> recs[k].row]

\* the records other than the one with the id i, in order
RECURSIVE Without(_, _, _)
Without(sch, recs, i) ==
    IF recs = <<>> THEN <<>>
    ELSE IF IdOf(sch, Head(recs).row).n = i THEN Without(sch, Tail(recs), i)
    ELSE <<Head(recs).row>> \o Without(sch, Tail(recs), i)

\* the last call was name and it returned (did not raise)
Returned(name) == call.name = name /\ ret.ok

---------------------------------------------------------------------------
(* C1 *)

IndexAgrees(sch, tb, scan) ==
    /\ scan.ok
    /\ DOMAIN tb.tree = RecIds(sch, scan.recs)
    /\ Cardinality(RecIds(sch, scan.recs)) = Len(scan.recs)
    /\ \A k \in 1..Len(scan.recs) :
          tb.tree[IdOf(sch, scan.recs[k].row).n] = scan.recs[k].begin

FindAgrees(sch, tb) ==
    \A i \in DOMAIN tb.tree :
        /\ find(sch, tb, IntV(i)).found
        /\ find(sch, tb, IntV(i)).begin = tb.tree[i]

\* C1: after any sequence of completed create, update and delete calls on a
\* table opened empty, the index keys are exactly the ids of the records in
\* the file, every id occurs in exactly one record, and index.get(id) is the
\* offset at which the record with that id begins, which is the offset
\* find(id) reports.
C1_IndexMatchesFile ==
    IndexAgrees(schema, Tb, Records(schema, file)) /\ FindAgrees(schema, Tb)

\* an update relocated the record of a row that was not the last of three:
\* the offsets of the index changed and still agree with the file
C1_Witness ==
    /\ Returned("update") /\ ret.val = 1
    /\ Cardinality(DOMAIN tree) = 3
    /\ \E i \in DOMAIN tree : i # call.id /\ tree[i] # pre.tree[i]

---------------------------------------------------------------------------
(* C2, C3, C4: the TableFile specification *)

\* the row holds one value of each field's datatype, each of them encodable
ValidRow(sch, row) ==
    /\ Len(row) = Len(sch)
    /\ \A i \in 1..Len(sch) : row[i].t = sch[i].datatype /\ to_bytes(row[i]).ok

AllWrittenValid == \A k \in 1..Len(written) : ValidRow(schema, written[k].row)

\* the scan so far returned the first rows written, each record beginning
\* where the one before it ended and ending where write_row said it ended
ScanFollowsWrites(recs) ==
    /\ Len(recs) <= Len(written)
    /\ \A k \in 1..Len(recs) :
          /\ recs[k].row = written[k].row
          /\ recs[k].begin = IF k = 1 THEN 0 ELSE recs[k - 1].end
          /\ recs[k].end = written[k].end

\* C2: for every sequence of rows valid for the schema, write_row on each in
\* order on an empty file and then a scan with read_row from offset 0
\* returns exactly those rows in that order, the first record beginning at
\* 0, each beginning where the previous one ended, the last ending at the
\* length of the file, and the read_row after it returns None.
C2_RecordRoundTrip ==
    (scanned.active /\ AllWrittenValid) =>
        /\ ret.ok
        /\ ScanFollowsWrites(scanned.recs)
        /\ (call.name = "read_row" /\ ret.val.none) => Len(scanned.recs) = Len(written)
        /\ (Len(scanned.recs) = Len(written) /\ written # <<>>) =>
               scanned.recs[Len(written)].end = Len(file)

\* every field of the schema is an Int, a Bool or a DateTime
FixedWidth(sch) ==
    \A i \in 1..Len(sch) : sch[i].datatype \in {"Int", "Bool", "DateTime"}

\* the bytes write_row emitted for each field of the row
EncodedFields(row) == [i \in 1..Len(row) |-> to_bytes(row[i]).bytes]

\* C3: framing is safe for fixed-width types: for every record whose fields
\* are Int, Bool or DateTime values, the loop of read_row splits the record
\* exactly at the delimiters write_row emitted: started where the record
\* begins it yields the encoded fields and stops where the record ends.
C3_FixedWidthFraming ==
    (FixedWidth(schema) /\ AllWrittenValid) =>
        \A k \in 1..Len(written) :
            ReadLoop(file, written[k].begin, <<>>)
                = [p |-> written[k].end, fields |-> EncodedFields(written[k].row)]

\* C4: write_row is all-or-nothing: when it returns or raises, the data file
\* is either unchanged or extended by one complete record that ends with
\* ROWS_DELIMITER.
C4_WriteAllOrNothing ==
    call.name = "write_row" =>
        \/ file = pre.bytes
        \/ /\ ret.ok
           /\ Len(file) >= Len(pre.bytes) + DELIMITER_SIZE
           /\ SubSeq(file, 1, Len(pre.bytes)) = pre.bytes
           /\ possible_delimiter(file, Len(file)) = ROWS_DELIMITER

---------------------------------------------------------------------------
(* C5, C6: Table.select *)

\* every (field, value) pair of the filter equals the row's value
Accepted(sch, row, flt) == \A k \in DOMAIN flt : row[FieldPos(sch, k)] = flt[k]

\* the positions of the records whose rows the filter accepts
AcceptedAt(sch, recs, flt) == {k \in 1..Len(recs) : Accepted(sch, recs[k].row, flt)}

\* rows holds the accepted rows of recs and nothing else, each of them once
SelectsExactly(sch, rows, recs, flt) ==
    /\ {rows[j] : j \in 1..Len(rows)} = {recs[k].row : k \in AcceptedAt(sch, recs, flt)}
    /\ Len(rows) = Cardinality(AcceptedAt(sch, recs, flt))
    /\ \A j, k \in 1..Len(rows) : j # k => rows[j] # rows[k]
    /\ DOMAIN flt = {} => Len(rows) = Len(recs)

\* C5: Table.select(filter) returns exactly the rows currently in the table
\* for which every (field, value) pair of the filter equals the row's value:
\* no matching row is omitted, no other row is included, no row appears
\* twice, and select without a filter returns every row of the table.
C5_SelectExact ==
    Returned("select") =>
        SelectsExactly(schema, ret.val, Records(schema, file).recs, call.flt)

\* a filter on both fields accepted one row of a table in which another row
\* has the same name and a third row has another name
C5_Witness ==
    /\ Returned("select")
    /\ DOMAIN call.flt = {"id", "name"}
    /\ Len(ret.val) = 1
    /\ Cardinality(DOMAIN tree) = 3
    /\ \E k \in 1..Len(Records(schema, file).recs) :
          /\ Records(schema, file).recs[k].row[2] = call.flt["name"]
          /\ Records(schema, file).recs[k].row[1] # call.flt["id"]

\* C6: after any sequence of create, update and delete calls the list that
\* Table.select(filter) returns is in strictly ascending id order: the id of
\* each returned row is greater than the id of the row before it.
C6_SelectAscending ==
    Returned("select") =>
        \A k \in 1..(Len(ret.val) - 1) :
            IdOf(schema, ret.val[k]).n < IdOf(schema, ret.val[k + 1]).n

\* select returned three rows of a file whose records an update had put in
\* another order than that of their ids
C6_Witness ==
    /\ Returned("select")
    /\ Len(ret.val) = 3
    /\ RowsOf(Records(schema, file).recs) # ret.val

---------------------------------------------------------------------------
(* C7, C8, C9: Table.create *)

\* the fields of the row other than id are those of the caller's row
OtherFieldsOf(sch, row, given) ==
    /\ Len(row) = Len(given)
    /\ \A j \in 1..Len(sch) : j # FieldPos(sch, "id") => row[j] = given[j]

\* read_row at the offset begin returned r: the record of the id id_ with the
\* caller's other values, from begin to the end of the file
CreatedRecord(sch, r, id_, given, begin, end) ==
    /\ r.ok /\ ~r.none
    /\ IdOf(sch, r.row) = IntV(id_)
    /\ OtherFieldsOf(sch, r.row, given)
    /\ r.begin = begin /\ r.end = end

\* get(id_) returned g: a row with the id id_ and the caller's other values
GotCreated(sch, g, id_, given) ==
    /\ g.ok
    /\ IdOf(sch, g.val) = IntV(id_)
    /\ OtherFieldsOf(sch, g.val, given)

\* C7: Table.create(row) ignores the id the caller put in the row: it returns
\* the value index.get_next_id() had before the call, the record it appends
\* carries that id and begins at the file length before the call,
\* index.get(returned id) is that offset, and get(returned id) returns a row
\* with that id and the caller's other field values.
C7_CreateAssignsNextId ==
    Returned("create") =>
        /\ ret.val = get_next_id(pre.tree)
        /\ SubSeq(file, 1, Len(pre.bytes)) = pre.bytes
        /\ CreatedRecord(schema, read_row(schema, [bytes |-> file, pos |-> Len(pre.bytes)]),
                         ret.val, call.row, Len(pre.bytes), Len(file))
        /\ exists(tree, ret.val) /\ tree[ret.val] = Len(pre.bytes)
        /\ GotCreated(schema, get(schema, Tb, ret.val), ret.val, call.row)

\* a create on a table that holds rows, with a row whose id is not the one
\* the table assigned
C7_Witness ==
    /\ Returned("create")
    /\ pre.bytes # <<>>
    /\ call.id # ret.val
    /\ call.row[2] = StrV(<<97>>)

\* C8: on a table opened empty, in any sequence of create, update, get,
\* select and delete calls in which the row holding the greatest id is never
\* deleted, the k-th create call returns k - 1.
C8_IdMonotonicity ==
    (Returned("create") /\ ~topDel) => ret.val = nCreate - 1

\* the third create of a run in which a row other than the one with the
\* greatest id was deleted before it
C8_Witness ==
    /\ Returned("create") /\ ~topDel
    /\ nCreate = 3
    /\ Cardinality(DOMAIN tree) < 3

\* 1 + the greatest of the ids, 0 when there is none
OnePlusGreatest(ids) == IF ids = {} THEN 0 ELSE 1 + MaxOf(ids)

\* C9 as stated: Table.create returns 1 + the greatest id among the rows in
\* the table, or 0 when the table holds no rows; after the row with the
\* greatest id has been deleted, the next create returns that same id again.
C9_CreateReusesDeletedTop ==
    Returned("create") =>
        /\ ret.val = OnePlusGreatest(RecIds(schema, Records(schema, pre.bytes).recs))
        /\ pre.top >= 0 => ret.val = pre.top

\* C9 amended: Table.create returns 1 + the greatest id among the rows in the
\* table, or 0 when the table holds no rows; after the row with the greatest
\* id m has been deleted, the next create returns an id that is at most m,
\* and it is m exactly when m = 0 or the row with id m - 1 is in the table at
\* that create.
C9_CreateReturnsOnePlusGreatest ==
    Returned("create") =>
        /\ ret.val = OnePlusGreatest(RecIds(schema, Records(schema, pre.bytes).recs))
        /\ pre.top >= 0 =>
              /\ ret.val <= pre.top
              /\ (ret.val = pre.top) <=> (pre.top = 0 \/ (pre.top - 1) \in DOMAIN pre.tree)

\* a create after the delete of the row with the greatest id, in a table
\* from which the row below it had been deleted before: the id it returns
\* is less than the one deleted
C9_Witness ==
    /\ Returned("create")
    /\ pre.top >= 0
    /\ pre.tree # EmptyTree
    /\ ret.val < pre.top

---------------------------------------------------------------------------
(* C10: Table.update *)

\* after update(row) returned val on the table tb whose file held the records
\* before and now holds the records after
Relocated(sch, tb, row, val, before, after) ==
    /\ val = 1
    /\ get(sch, tb, IdOf(sch, row).n).ok
    /\ get(sch, tb, IdOf(sch, row).n).val = row
    /\ after # <<>>
    /\ after[Len(after)].row = row
    /\ after[Len(after)].end = Len(tb.bytes)
    /\ Len(after) = Len(before)
    /\ Without(sch, after, IdOf(sch, row).n) = Without(sch, before, IdOf(sch, row).n)
    /\ Len(Without(sch, after, IdOf(sch, row).n)) = Len(after) - 1

\* C10: if a row with id i is in the table, Table.update(row with id i)
\* returns 1 and afterwards get(i) returns the new field values, the record
\* of i is the last record of the data file, the number of rows is unchanged
\* and every other row keeps its values and its order relative to the other
\* rows in the file.
C10_UpdateRelocates ==
    (Returned("update") /\ call.id \in DOMAIN pre.tree) =>
        Relocated(schema, Tb, call.row, ret.val,
                  Records(schema, pre.bytes).recs, Records(schema, file).recs)

\* an update gave another name to the first of three records
C10_Witness ==
    /\ Returned("update")
    /\ Cardinality(DOMAIN pre.tree) = 3
    /\ call.id \in DOMAIN pre.tree
    /\ pre.tree[call.id] = 0
    /\ Records(schema, pre.bytes).recs[1].row # call.row

---------------------------------------------------------------------------
(* C11, C12: Table.delete and Table.update of an absent id *)

\* read_row at the offset the index holds for j returned r: the row of j
ReadsRowOf(sch, r, j) == r.ok /\ ~r.none /\ IdOf(sch, r.row) = IntV(j)

\* every id of the index leads to the record of that id
SurvivorsReadable(sch, tb) ==
    \A j \in DOMAIN tb.tree :
        ReadsRowOf(sch, read_row(sch, seek(FileOf(tb), tb.tree[j]).f), j)

\* after delete(i) returned val on the table tb whose file held the records
\* before: g is what get(i) does now, s what select({}) returns now
DeletedRow(sch, tb, i, val, before, g, s) ==
    /\ val = 1
    /\ ~exists(tb.tree, i)
    /\ ~g.ok /\ g.exc = "ValueError"
    /\ s.ok
    /\ {s.val[k] : k \in 1..Len(s.val)} = {before[k].row : k \in 1..Len(before)}
                                            \ {r \in {before[k].row : k \in 1..Len(before)} :
                                                 IdOf(sch, r) = IntV(i)}
    /\ Len(s.val) = Len(before) - 1
    /\ SurvivorsReadable(sch, tb)

\* C11: if a row with id i is in the table, Table.delete(i) returns 1 and
\* afterwards index.exists(i) is false, get(i) fails with NotFound
\* (ValueError), select({}) returns exactly the previous rows minus row i
\* with unchanged values, and for every surviving id j, seeking to
\* index.get(j) and calling read_row returns the row with id j.
C11_DeleteRemovesRow ==
    (Returned("delete") /\ call.id \in DOMAIN pre.tree) =>
        DeletedRow(schema, Tb, call.id, ret.val, Records(schema, pre.bytes).recs,
                   get(schema, Tb, call.id), select(schema, Tb, NoFilter))

\* the delete of the first of three records: both survivors moved
C11_Witness ==
    /\ Returned("delete")
    /\ Cardinality(DOMAIN pre.tree) = 3
    /\ call.id \in DOMAIN pre.tree
    /\ pre.tree[call.id] = 0
    /\ Cardinality(DOMAIN tree) = 2

\* C12: when no record in the data file has id i, Table.delete(i) returns 0
\* and Table.update(row with id i) returns 0, and in both cases the data
\* file, the in-memory index and the index file are exactly what they were
\* before the call.
C12_AbsentIdChangesNothing ==
    ((call.name \in {"delete", "update"})
       /\ call.id \notin RecIds(schema, Records(schema, pre.bytes).recs)) =>
        /\ ret.ok /\ ret.val = 0
        /\ file = pre.bytes
        /\ tree = pre.tree
        /\ idxFile = pre.idx

\* an update with the id of a row that was deleted from a table that still
\* holds two rows
C12_Witness ==
    /\ call.name = "update"
    /\ ret.val = 0
    /\ Cardinality(DOMAIN tree) = 2
    /\ call.id < get_next_id(tree)

---------------------------------------------------------------------------
(* C13: Table.get of an id the index does not hold *)

\* C13: Table.get(id) fails with NotFound (ValueError) for every id that is
\* not in the index, an id never assigned or the id of a deleted row, and
\* the failing call changes neither the data file nor the index.
C13_GetAbsentFails ==
    (call.name = "get" /\ call.id \notin DOMAIN pre.tree) =>
        /\ ~ret.ok /\ ret.exc = "ValueError"
        /\ file = pre.bytes
        /\ tree = pre.tree
        /\ idxFile = pre.idx

\* a get of the id of a deleted row, below the ids of two rows still there
C13_Witness ==
    /\ call.name = "get"
    /\ ~ret.ok
    /\ Cardinality(DOMAIN tree) = 2
    /\ call.id < MaxOf(DOMAIN tree)

---------------------------------------------------------------------------
(* C14: Table.get with an index that is stale relative to the data file *)

\* the index maps id_ to an offset at which a record with another id begins
StaleAt(sch, tb, id_, recs) ==
    /\ exists(tb.tree, id_)
    /\ \E k \in 1..Len(recs) :
          recs[k].begin = tb.tree[id_] /\ IdOf(sch, recs[k].row) # IntV(id_)

\* C14: Table.get(id) never returns a row whose id differs from the
\* requested id: when the index maps id to an offset at which a record with
\* another id begins, get fails with IndexCorrupt instead of returning that
\* record.
C14_GetChecksId ==
    call.name = "get" =>
        /\ ret.ok => IdOf(schema, ret.val) = IntV(call.id)
        /\ StaleAt(schema, Tb, call.id, Records(schema, file).recs) =>
               (~ret.ok /\ ret.exc = "IndexCorrupt")

---------------------------------------------------------------------------
(* C16: a fresh Table on the files of a closed one *)

\* two calls returned the same value or raised the same exception
SameAnswer(a, b) == a.ok = b.ok /\ a.exc = b.exc /\ a.val = b.val

\* select({}) and get(id) of every id answer on the table now as they do on
\* the table was
SameRows(sch, now, was) ==
    /\ SameAnswer(select(sch, now, NoFilter), select(sch, was, NoFilter))
    /\ \A i \in Ids : SameAnswer(get(sch, now, i), get(sch, was, i))

\* C16: after any sequence of completed create, update and delete calls
\* followed by closing the table, a fresh Table constructed on the same data
\* and index files loads an index map equal to the one held before the
\* close, and select({}) and get(id) return the same rows as before.
C16_RowsSurviveReopen ==
    Returned("reopen") =>
        /\ tree = pre.tree
        /\ file = pre.bytes
        /\ SameRows(schema, Tb, [bytes |-> pre.bytes, pos |-> 0, tree |-> pre.tree,
                                 idx |-> pre.idx])

\* a reopen of a table of three rows in which an update had put the record
\* of id 0 behind that of id 1
C16_Witness ==
    /\ Returned("reopen")
    /\ DOMAIN tree = {0, 1, 2}
    /\ tree[0] > tree[1]
    /\ get(schema, Tb, 0).ok

---------------------------------------------------------------------------
(* C15, C17, C18, C19, C20: the Database specification *)

\* the fresh Database res holds a table called name whose fields are flds
Reopens(res, name, flds) ==
    /\ res.ok
    /\ name \in DOMAIN res.db.tables
    /\ FieldsOf(res.db.heap, res.db.tables[name].schema) = flds

\* C15: catalog persistence: after create_table(name, S) returns, a fresh
\* Database constructed on the same data_root contains a table called name
\* whose schema equals S, with the same fields, datatypes and field order,
\* after any sequence of create_table and delete_table calls.
C15_CatalogPersists ==
    Returned("create_table") => Reopens(Database(metaJson, disk), call.id, call.row)

\* the last call was a catalog call with a name conflict: create_table with
\* a name that was present, delete_table with a name that was not
NameConflict ==
    \/ call.name = "create_table" /\ call.id \in DOMAIN pre.tables
    \/ call.name = "delete_table" /\ call.id \notin DOMAIN pre.tables

\* the fields of the schema of each Table and of each catalog entry
TableSchemas(d) == [n \in DOMAIN d.tables |-> FieldsOf(d.heap, d.tables[n].schema)]

CatalogSchemas(d) == [i \in 1..Len(d.metadata) |-> FieldsOf(d.heap, d.metadata[i].schema)]

\* the database d is as the database e: table map, catalog entries,
\* meta.json and every file
SameDatabase(d, e) ==
    /\ d.tables = e.tables
    /\ TableSchemas(d) = TableSchemas(e)
    /\ d.metadata = e.metadata
    /\ CatalogSchemas(d) = CatalogSchemas(e)
    /\ d.metaJson = e.metaJson
    /\ d.disk = e.disk

\* C17: a catalog call with a name conflict, create_table with a name
\* already present or delete_table with a name not present, raises
\* ValueError and changes nothing: the name-to-Table map, the in-memory
\* catalog entries, meta.json and every data and index file, the rows of the
\* existing table with that name among them, are as before the call.
C17_ConflictChangesNothing ==
    NameConflict => ~ret.ok /\ ret.exc = "ValueError" /\ SameDatabase(Db, pre)

\* create_table failed for the name of a table that holds a row
C17_Witness ==
    /\ call.name = "create_table"
    /\ ~ret.ok
    /\ call.id \in DOMAIN tables
    /\ disk[tables[call.id].filepath] # <<>>

\* the table called name is gone from the database d: get_table returns
\* None, neither file exists, meta.json holds no entry with the name
TableGone(d, name, filepath) ==
    /\ get_table(d, name) = <<>>
    /\ filepath \notin DOMAIN d.disk
    /\ IdxPath(filepath) \notin DOMAIN d.disk
    /\ \A i \in 1..Len(d.metaJson) : d.metaJson[i].name # name

\* the tables of d other than name are in e as they are in d, with their
\* schemas, data files and index files
OthersKept(d, e, name) ==
    \A n \in DOMAIN d.tables \ {name} :
        /\ n \in DOMAIN e.tables
        /\ e.tables[n] = d.tables[n]
        /\ FieldsOf(e.heap, e.tables[n].schema) = FieldsOf(d.heap, d.tables[n].schema)
        /\ e.disk[e.tables[n].filepath] = d.disk[d.tables[n].filepath]
        /\ e.disk[IdxPath(e.tables[n].filepath)] = d.disk[IdxPath(d.tables[n].filepath)]

\* C18: after delete_table(name) returns for a present table, get_table(name)
\* returns None, the table's data file and index file no longer exist, both
\* of its handles are closed, meta.json holds no entry with that name, a
\* fresh Database on the same data_root does not contain the table, and
\* every other table and its rows are unchanged.
C18_DeleteTableRemoves ==
    Returned("delete_table") =>
        /\ TableGone(Db, call.id, pre.tables[call.id].filepath)
        /\ ret.val.fileClosed /\ ret.val.indexClosed
        /\ call.id \notin DOMAIN Database(metaJson, disk).db.tables
        /\ OthersKept(pre, Db, call.id)

\* delete_table returned for a table that held a row while another table
\* that holds a row stays
C18_Witness ==
    /\ Returned("delete_table")
    /\ pre.disk[pre.tables[call.id].filepath] # <<>>
    /\ \E n \in DOMAIN tables : disk[tables[n].filepath] # <<>>

\* the names of a catalog, in memory or in meta.json
NamesOf(md) == {md[i].name : i \in 1..Len(md)}

\* C19: in every state reached by create_table and delete_table calls,
\* calls that fail part-way included, the names in the table map, the names
\* in the in-memory catalog and the names stored in meta.json are the same
\* set, and no name occurs twice in the catalog.
C19_CatalogNamesAgree ==
    /\ DOMAIN tables = NamesOf(metadata)
    /\ NamesOf(metadata) = NamesOf(metaJson)
    /\ Cardinality(NamesOf(metadata)) = Len(metadata)

\* C20: schemas are copied on create_table: a later mutation the caller
\* makes to S or to its fields mapping (adding, removing or replacing a
\* field) changes neither the schema held by the created Table nor the
\* schema of the catalog entry that the next meta.json flush writes.
C20_SchemaNotAliased ==
    call.name = "mutate" =>
        /\ TableSchemas(Db) = TableSchemas(pre)
        /\ MetaJson(metadata, heap) = MetaJson(pre.metadata, pre.heap)

---------------------------------------------------------------------------
(* C21, C22, C28, C29: Tables created, dropped and re-acquired *)

\* the Table t of the database d is empty: select({}) returns no rows, its
\* index is empty and its first create returns id 0
EmptyTable(d, t) ==
    /\ select(FieldsOf(d.heap, t.schema), TableState(d, t), NoFilter).ok
    /\ select(FieldsOf(d.heap, t.schema), TableState(d, t), NoFilter).val = <<>>
    /\ t.tree = EmptyTree
    /\ get_next_id(t.tree) = 0

\* C21: a table returned by create_table is empty, in any sequence of
\* create_table, delete_table and row operations, in particular when a
\* table of the same name was populated and dropped before: select({})
\* returns no rows, its index is empty, and its first create returns id 0.
C21_CreatedTableEmpty ==
    Returned("create_table") =>
        /\ get_table(Db, call.id) = ret.val
        /\ EmptyTable(Db, ret.val)

\* create_table returned for the name of a table that held a row when it
\* was dropped
C21_Witness ==
    /\ Returned("create_table")
    /\ call.id \in DOMAIN dropped
    /\ dropped[call.id].tree # EmptyTree

\* C22: table lifecycle Open -> Closed: once a Table's data file and index
\* have been closed, as delete_table does to a Table the caller may still
\* hold, every Table operation (get, select, create, update, delete, find,
\* refresh_indexes) fails with an error rather than returning a result, and
\* the table never becomes Open again.
C22_ClosedTableFails ==
    /\ \A n \in DOMAIN dropped : dropped[n].fileClosed /\ dropped[n].indexClosed
    /\ call.name \in TableOps => ~ret.ok

\* get on a closed Table whose index holds the id reached the data file and
\* failed there
C22_Witness ==
    /\ call.name = "get"
    /\ call.id \in DOMAIN dropped[call.row].tree
    /\ ~ret.ok
    /\ ret.exc = "AssertionError"

\* the number of open handles of a Table
OpenHandles(t) == (IF t.fileClosed THEN 0 ELSE 1) + (IF t.indexClosed THEN 0 ELSE 1)

\* the number of open handles of the Tables tbs[n], n in S
RECURSIVE HandlesOf(_, _)
HandlesOf(tbs, S) ==
    IF S = {} THEN 0
    ELSE OpenHandles(tbs[CHOOSE n \in S : TRUE])
         + HandlesOf(tbs, S \ {CHOOSE n \in S : TRUE})

\* C29: handle accounting: in every state reached by create_table and
\* delete_table calls, each Table in the Database's map has its data-file
\* handle and its index-file handle open, each dropped Table has both
\* closed, and the number of open handles is exactly twice the number of
\* tables in the map.
C29_HandleAccounting ==
    /\ \A n \in DOMAIN tables : ~tables[n].fileClosed /\ ~tables[n].indexClosed
    /\ \A n \in DOMAIN dropped : OpenHandles(dropped[n]) = 0
    /\ HandlesOf(tables, DOMAIN tables) + HandlesOf(dropped, DOMAIN dropped)
           = 2 * Cardinality(DOMAIN tables)

\* delete_table returned while another table stays in the map
C29_Witness ==
    /\ Returned("delete_table")
    /\ call.id \in DOMAIN dropped
    /\ DOMAIN tables # {}

\* every entry of the index points at the start of a record of the scan
\* that carries its id
EntriesPointAtRecords(sch, tr, scan) ==
    /\ scan.ok
    /\ \A i \in DOMAIN tr :
          \E k \in 1..Len(scan.recs) :
              scan.recs[k].begin = tr[i] /\ IdOf(sch, scan.recs[k].row).n = i

\* the index of the Table t of the database d agrees with its data file
TableIndexAgrees(d, t) ==
    EntriesPointAtRecords(FieldsOf(d.heap, t.schema), t.tree,
                          Records(FieldsOf(d.heap, t.schema), d.disk[t.filepath]))

\* C28: if the process stops inside delete_table(name) before meta.json has
\* been rewritten (after closing, after unlinking only the data file, or
\* after unlinking both files), a fresh Database on the same data_root opens
\* without error and still contains name, and the index of the re-acquired
\* table agrees with its data file: every index entry points at the start
\* of a record carrying that id.
C28_KilledDeleteReacquires ==
    call.name = "delete_table_killed" =>
        /\ ret.ok
        /\ call.id \in DOMAIN tables
        /\ TableIndexAgrees(Db, tables[call.id])

---------------------------------------------------------------------------
(* C23: the index file after set, delete and clear *)

\* entry k (from 1) of an index file: the id and the offset read back
EntryId(idx, k) == UnpackLE32(SubSeq(idx, 12 * (k - 1) + 1, 12 * (k - 1) + 4))

EntryOffset(idx, k) == FromLE(SubSeq(idx, 12 * (k - 1) + 5, 12 * k))

\* the index file holds exactly the entries of the map: one 12-byte entry
\* per key, in ascending id order, and nothing else
HoldsExactly(idx, tr) ==
    /\ Len(idx) = 12 * Cardinality(DOMAIN tr)
    /\ {EntryId(idx, k) : k \in 1..Cardinality(DOMAIN tr)} = DOMAIN tr
    /\ \A k \in 1..Cardinality(DOMAIN tr) : EntryOffset(idx, k) = tr[EntryId(idx, k)]
    /\ \A k \in 1..(Cardinality(DOMAIN tr) - 1) : EntryId(idx, k) < EntryId(idx, k + 1)

\* C23: for an open TableIndex, after each set, delete or clear call
\* returns, the index file holds exactly the entries of the in-memory map:
\* one 12-byte (id, offset) entry per key, in ascending id order, and
\* nothing else (file size = 12 x number of keys).
C23_IndexFileEqualsMap ==
    (call.name \in {"set", "delete", "clear"} /\ ret.ok) => HoldsExactly(idxFile, tree)

\* a delete removed one of three keys, a negative id among them
C23_Witness ==
    /\ Returned("delete")
    /\ ret.val >= 0
    /\ Cardinality(DOMAIN tree) = 2
    /\ -1 \in DOMAIN tree

---------------------------------------------------------------------------
(* C24: the codec round trip *)

\* the value is representable: an Int of 32 signed bits, a Bool, a Str, a
\* DateTime of whole seconds
Representable(v) ==
    CASE v.t = "Int" -> v.hi = 0
      [] v.t = "DateTime" -> v.us = 0
      [] OTHER -> TRUE

\* C24: codec round-trip: for every representable value v of Int (signed
\* 32-bit), Bool, Str and DateTime, decoding the bytes produced by encoding
\* v with the same variant yields a value equal to v.
C24_CodecRoundTrip ==
    (call.name \in {"to_bytes", "from_bytes"} /\ Representable(call.row[1])) =>
        /\ ret.ok
        /\ call.name = "from_bytes" => ret.val = call.row[1]

\* a DateTime before the epoch that needs more than 32 bits came back
C24_Witness ==
    /\ Returned("from_bytes")
    /\ call.row[1].t = "DateTime"
    /\ call.row[1].hi = -1
    /\ call.row[1].us = 0
    /\ ret.val = call.row[1]

---------------------------------------------------------------------------
(* C30: TableFile.erase *)

\* C30: erase(begin, end) with 0 <= begin < end <= file length leaves the
\* file equal to the old bytes [0, begin) followed by the old bytes
\* [end, length): the length shrinks by end - begin, bytes before begin are
\* untouched and bytes after end keep their order; erase with begin >= end
\* fails and leaves the file unchanged.
C30_EraseCutsRange ==
    call.name = "erase" =>
        /\ (call.id < call.row[1] /\ call.row[1] <= Len(pre.bytes)) =>
              /\ ret.ok
              /\ file = SubSeq(pre.bytes, 1, call.id)
                          \o SubSeq(pre.bytes, call.row[1] + 1, Len(pre.bytes))
              /\ Len(file) = Len(pre.bytes) - (call.row[1] - call.id)
        /\ call.id >= call.row[1] => ~ret.ok /\ file = pre.bytes

\* an erase cut bytes out of the middle of the file
C30_Witness ==
    /\ Returned("erase")
    /\ call.id > 0
    /\ call.row[1] < Len(pre.bytes)
    /\ Len(file) < Len(pre.bytes)

---------------------------------------------------------------------------
(* C27: recovery by rebuild *)

\* the index maps each id written to the offset at which its record begins
MapsWritten(tr) ==
    /\ DOMAIN tr = WrittenIds
    /\ \A k \in 1..Len(written) : tr[IdOf(schema, written[k].row).n] = written[k].begin

\* C27: recovery by rebuild: for a data file made of complete records with
\* distinct ids, whatever the index holds beforehand, refresh_indexes ends
\* with the in-memory index and the index file both equal to the mapping
\* from each id in the file to the offset at which its record begins.
C27_RebuildRecovers ==
    call.name = "refresh_indexes" =>
        /\ ret.ok
        /\ MapsWritten(tree)
        /\ HoldsExactly(idxFile, tree)

---------------------------------------------------------------------------
\* C25: a schema is accepted only if it has at least one field and exactly
\* one field named id, of datatype Int; a CREATE TABLE whose field list
\* lacks id: Int is rejected by the TableSchema constructor before
\* Database.create_table is called, so the tables, the catalog, meta.json
\* and the files are what they were.

\* at least one field, exactly one named id, and that one an Int
AcceptedSchema(flds) ==
    /\ Len(flds) > 0
    /\ Cardinality({j \in 1..Len(flds) : flds[j].name = "id"}) = 1
    /\ \A j \in 1..Len(flds) : flds[j].name = "id" => flds[j].datatype = "Int"

\* the field list of the query has no id: Int
LacksIdInt(qfields) ==
    ~\E j \in 1..Len(qfields) : qfields[j].field = "id" /\ qfields[j].dtype = "Int"

\* the last command was a CREATE TABLE
CreateTableRan == call.name = "execute" /\ call.id = "create_table"

C25_SchemaNeedsIdInt ==
    /\ \A n \in DOMAIN tables : AcceptedSchema(FieldsOf(heap, tables[n].schema))
    /\ CreateTableRan /\ LacksIdInt(call.row.fields) =>
           /\ tables = pre.tables
           /\ metadata = pre.metadata
           /\ metaJson = pre.metaJson
           /\ disk = pre.disk
           /\ call.row.table \notin DOMAIN pre.tables =>
                  ~ret.ok /\ ret.exc = "ValidationError"

\* CREATE TABLE b (name: Str) was refused while the database held a table
C25_Witness ==
    /\ CreateTableRan
    /\ call.row.fields = <<FieldWithDType("name", "Str")>>
    /\ call.row.table \notin DOMAIN pre.tables
    /\ DOMAIN pre.tables # {}
    /\ ret.exc = "ValidationError"
    /\ metaJson = pre.metaJson

---------------------------------------------------------------------------
\* C26: for every parsed command Executor.execute reports a failure as a
\* printed message and returns normally, so that repl goes on to the next
\* query.
C26_FailuresPrinted ==
    call.name = "execute" /\ Parsed(call.row) => ret.ok /\ ret.val # ""

---------------------------------------------------------------------------
\* C31: seek(pos) on a file of length L sets the position to pos when
\* pos >= 0 and to L + pos + 1 when pos < 0; when L + pos + 1 < 0 it fails
\* with InvalidPosition (ValueError); after write_row the position is the
\* returned end and at_end() is true; at_end() and at_beginning() do not
\* move the position.

\* where seek(p) puts the cursor of a file of length L
SeekTarget(L, p) == IF p >= 0 THEN p ELSE L + p + 1

C31_SeekPositions ==
    /\ call.name = "seek" =>
           /\ file = pre.bytes
           /\ SeekTarget(Len(file), call.id) >= 0 =>
                  ret.ok /\ pos = SeekTarget(Len(file), call.id)
           /\ SeekTarget(Len(file), call.id) < 0 =>
                  ~ret.ok /\ ret.exc = "ValueError" /\ pos = pre.pos
    /\ call.name = "write_row" /\ ret.ok =>
           pos = ret.val[2] /\ at_end([bytes |-> file, pos |-> pos])
    /\ call.name \in {"at_end", "at_beginning"} =>
           /\ pos = pre.pos
           /\ file = pre.bytes
           /\ call.name = "at_end" => (ret.val <=> pos = Len(file))
           /\ call.name = "at_beginning" => (ret.val <=> pos = 0)

\* seek(-5) on a file that holds two records put the cursor at L - 4
C31_Witness ==
    /\ call.name = "seek"
    /\ call.id = -5
    /\ Len(written) = 2
    /\ kills = 0
    /\ pos = Len(file) - 4

---------------------------------------------------------------------------
\* C32: read_row at a position p with 0 < p < file length whose 8
\* preceding bytes are not ROWS_DELIMITER, every p from 1 to 7 included,
\* fails with FilePointerCorrupt and returns no row; at a position preceded
\* by ROWS_DELIMITER it starts decoding at p itself.

\* the DELIMITER_SIZE bytes before position p are ROWS_DELIMITER
PrecededByDelimiter(bytes, p) ==
    p >= DELIMITER_SIZE /\ SubSeq(bytes, p - DELIMITER_SIZE + 1, p) = ROWS_DELIMITER

\* read_row was called inside the file
ReadInside == call.name = "read_row" /\ 0 < pre.pos /\ pre.pos < Len(pre.bytes)

C32_PointerChecked ==
    ReadInside =>
        /\ ~PrecededByDelimiter(pre.bytes, pre.pos) =>
               ~ret.ok /\ ret.exc = "FilePointerCorruptError"
        /\ PrecededByDelimiter(pre.bytes, pre.pos) =>
               /\ ret.exc # "FilePointerCorruptError"
               /\ ret.ok => ~ret.val.none /\ ret.val.begin = pre.pos

---------------------------------------------------------------------------
\* C33: when the data file ends with a proper prefix of a record, read_row
\* at the start of that prefix fails with CorruptRecord (the assertion on
\* the field count), and so does every scan that reaches it; no row is
\* built from the partial bytes.

\* where the torn record begins
TornBegin == written[Len(written)].begin

C33_TornTailDetected ==
    kills > 0 =>
        /\ call.name = "read_row" /\ pre.pos = TornBegin =>
               ~ret.ok /\ ret.exc = "AssertionError"
        /\ call.name \in Scans => ~ret.ok

---------------------------------------------------------------------------
\* C34: Table.get, Table.select and Table.find, whether they return or
\* fail, leave the data file bytes, the in-memory index map and the index
\* file unchanged, so any two of them can be run in either order with the
\* same results.

ReadOnlyOps == {"get", "select", "find"}

\* what the read-only call c gives on the table state tb
ReadOnlyResult(c, tb) ==
    CASE c.name = "get" -> get(schema, tb, c.id)
      [] c.name = "select" -> select(schema, tb, c.flt)
      [] OTHER -> FindResult(tb, find(schema, tb, IntV(c.id)))

\* the call c gives the result r wherever the cursor of the table state is
SameFromAnywhere(c, r) ==
    \A q \in {0, 1, Len(file)} :
        /\ ReadOnlyResult(c, [Tb EXCEPT !.pos = q]).ok = r.ok
        /\ ReadOnlyResult(c, [Tb EXCEPT !.pos = q]).exc = r.exc
        /\ ReadOnlyResult(c, [Tb EXCEPT !.pos = q]).val = r.val

C34_ReadOnlyOps ==
    call.name \in ReadOnlyOps =>
        /\ file = pre.bytes
        /\ tree = pre.tree
        /\ idxFile = pre.idx
        /\ SameFromAnywhere(call, ret)

\* a get of an id the table lacks failed on a table that holds a row
C34_Witness ==
    /\ call.name = "get"
    /\ ~ret.ok
    /\ file # <<>>
    /\ tree # EmptyTree
    /\ file = pre.bytes

---------------------------------------------------------------------------
\* C35: when the process stops between two steps of create, update or
\* delete and the table is reopened from its files without
\* refresh_indexes, no later create assigns an id that a record already in
\* the data file carries: the data file never holds two records with the
\* same id.
C35_IdsUniqueAcrossStop ==
    /\ Returned("create") =>
           ret.val \notin RecIds(schema, Records(schema, pre.bytes).recs)
    /\ Cardinality(RecIds(schema, Records(schema, file).recs))
           = Len(Records(schema, file).recs)

---------------------------------------------------------------------------
\* C36: a stop at any step inside Table.delete(id) or Table.update(row)
\* never loses a row other than the targeted one: after reopening the
\* table and calling refresh_indexes every row with a different id that
\* was in the table before the call is still there with unchanged values,
\* and for update the targeted row is present with either its old or its
\* new values.

\* the rows in the table before the stopped call
RowsBefore == RowsOf(Records(schema, scanned.bytes).recs)

\* the table holds the row: refresh_indexes indexed a record of its id that
\* carries it
Holds(row) ==
    /\ exists(tree, IdOf(schema, row).n)
    /\ get(schema, Tb, IdOf(schema, row).n).ok
    /\ get(schema, Tb, IdOf(schema, row).n).val = row

\* the fresh process has called refresh_indexes after the stop
Recovered36 == call.name = "refresh_indexes" /\ kills > 0

C36_StopLosesOnlyTarget ==
    Recovered36 =>
        /\ ret.ok
        /\ \A k \in 1..Len(RowsBefore) :
               IdOf(schema, RowsBefore[k]).n # scanned.call.id => Holds(RowsBefore[k])
        /\ scanned.call.name = "update_stopped" =>
               \E k \in 1..Len(RowsBefore) :
                   /\ IdOf(schema, RowsBefore[k]).n = scanned.call.id
                   /\ Holds(RowsBefore[k]) \/ Holds(scanned.call.row)

---------------------------------------------------------------------------
\* C37: once the data file and the index of a Table are closed, no Table
\* operation changes the data file, the index file or the in-memory index
\* map: the map stays what was persisted at close.
C37_ClosedTableFrozen ==
    [][call'.name \in TableOps =>
           /\ disk' = disk
           /\ \A n \in DOMAIN dropped :
                  /\ n \in DOMAIN dropped'
                  /\ dropped'[n].tree = dropped[n].tree]_<<disk, dropped>>


\* upload_rat_image was resumed at its await and returned
UploadCompleted == call.name = "upload_resumed" /\ ret.ok

\* the rats table as it was when upload_rat_image was resumed
RatsBefore == [bytes |-> pre.bytes, pos |-> 0, tree |-> pre.tree, idx |-> pre.idx]

\* the row b stored before and the row a stored after differ in the image alone
OnlyImageChanged(b, a, path) ==
    /\ a[FieldPos(RatSchema, "image")] = path
    /\ \A k \in RatFields \ {"image"} :
           a[FieldPos(RatSchema, k)] = b[FieldPos(RatSchema, k)]

\* what RatTable.get(rat_id) returned before (b) and returns after (a) agree
\* but for the image; a row that was not stored is not stored after
UploadKept(b, a, path) ==
    IF b.ok THEN a.ok /\ OnlyImageChanged(b.val, a.val, path) ELSE ~a.ok

\* C38: when upload_rat_image has completed, the row of its id has, for every
\* field but the image, the value that was stored immediately before the
\* handler's Table.update call, whatever update_rat or delete_rat did while
\* the handler was suspended at await image.read(); a row that was deleted
\* meanwhile is not stored again.
C38_UploadChangesOnlyImage ==
    UploadCompleted =>
        UploadKept(get(RatSchema, RatsBefore, call.id), get(RatSchema, Tb, call.id),
                   call.row)

====
